---- MODULE Spec2Model ----
(***************************************************************************)
(* Model of the interactive Lean 4 proof-editing session of                *)
(* nemo_skills/code_execution/lean4/interactive_agent.py                   *)
(* (class InteractiveLeanAgent).  Documents, clause ids, clause contents   *)
(* and verifier responses are character strings; the Python string         *)
(* methods and regular expressions the agent uses are modelled on them     *)
(* character by character.                                                 *)
(***************************************************************************)
EXTENDS Integers, Sequences, FiniteSets, TLC

(***************************************************************************)
(* Python str primitives (0-based indices, as in the source).              *)
(***************************************************************************)
Whitespace == {" ", "\n", "\t"}

WordChars ==
  {"a", "b", "c", "d", "e", "f", "g", "h", "i", "j", "k", "l", "m", "n", "o",
   "p", "q", "r", "s", "t", "u", "v", "w", "x", "y", "z",
   "A", "B", "C", "D", "E", "F", "G", "H", "I", "J", "K", "L", "M", "N", "O",
   "P", "Q", "R", "S", "T", "U", "V", "W", "X", "Y", "Z",
   "0", "1", "2", "3", "4", "5", "6", "7", "8", "9", "_"}

MinOf(S) == CHOOSE x \in S : \A y \in S : x <= y

\* s[i]
CharAt(s, i) == SubSeq(s, i + 1, i + 1)

\* s[a:b] for 0 <= a
Slice(s, a, b) == SubSeq(s, a + 1, IF b < Len(s) THEN b ELSE Len(s))

\* s[a:]
SliceFrom(s, a) == SubSeq(s, a + 1, Len(s))

\* s.startswith(p)
StartsWith(s, p) == Len(s) >= Len(p) /\ SubSeq(s, 1, Len(p)) = p

\* s.find(p, start): index of the first occurrence at or after start, else -1
FindFrom(s, p, start) ==
  LET hits == {i \in start..(Len(s) - Len(p)) : SubSeq(s, i + 1, i + Len(p)) = p}
  IN  IF hits = {} THEN -1 ELSE MinOf(hits)

\* s.find(p)
Find(s, p) == FindFrom(s, p, 0)

\* p in s
Contains(s, p) == Find(s, p) # -1

\* index of the first character at or after i that is not in the class cls
\* (the end of a greedy run of cls starting at i); Len(s) if there is none
SkipRun(s, i, cls) ==
  IF i >= Len(s) THEN i
  ELSE MinOf({j \in i..Len(s) : j = Len(s) \/ CharAt(s, j) \notin cls})

\* number of leading whitespace characters: len(s) - len(s.lstrip())
LeadingSpace(s) == SkipRun(s, 0, Whitespace)

\* s.lstrip()
LStrip(s) == SliceFrom(s, LeadingSpace(s))

\* s.rstrip()
RECURSIVE RStrip(_)
RStrip(s) ==
  IF Len(s) > 0 /\ CharAt(s, Len(s) - 1) \in Whitespace
  THEN RStrip(Slice(s, 0, Len(s) - 1))
  ELSE s

\* s.strip()
Strip(s) == RStrip(LStrip(s))

\* s.split('\n')
RECURSIVE SplitLines(_)
SplitLines(s) ==
  LET i == Find(s, "\n")
  IN  IF i = -1 THEN <<s>>
      ELSE <<Slice(s, 0, i)>> \o SplitLines(SliceFrom(s, i + 1))

\* sep.join(parts)
RECURSIVE Join(_, _)
Join(parts, sep) ==
  IF Len(parts) = 0 THEN ""
  ELSE IF Len(parts) = 1 THEN parts[1]
  ELSE parts[1] \o sep \o Join(Tail(parts), sep)

\* '\n'.join(lines)
JoinLines(lines) == Join(lines, "\n")

\* s.replace(old, new): every non-overlapping occurrence, left to right
RECURSIVE Replace(_, _, _)
Replace(s, old, new) ==
  LET i == Find(s, old)
  IN  IF i = -1 THEN s
      ELSE Slice(s, 0, i) \o new \o Replace(SliceFrom(s, i + Len(old)), old, new)

\* ' ' * n
RECURSIVE Spaces(_)
Spaces(n) == IF n <= 0 THEN "" ELSE " " \o Spaces(n - 1)

(***************************************************************************)
(* Data classes.                                                           *)
(***************************************************************************)
Position(l, c) == [line |-> l, column |-> c]

LeanMessage(sev, text) ==
  [severity |-> sev, message |-> text,
   start_pos |-> Position(0, 0), end_pos |-> Position(0, 0)]

ProofGoal(text, l, c) == [goal_text |-> text, position |-> Position(l, c)]

EditableClause(cid, sp, ep, text, ctype) ==
  [clause_id |-> cid, start_pos |-> sp, end_pos |-> ep,
   content |-> text, clause_type |-> ctype]

(***************************************************************************)
(* The clause map is a Python dict: insertion ordered, one entry per key.  *)
(* It is a sequence of clauses with pairwise distinct clause_id; storing   *)
(* under an existing key overwrites the entry in place.                    *)
(***************************************************************************)
Keys(d) == {d[k].clause_id : k \in 1..Len(d)}

KeyList(d) == [k \in 1..Len(d) |-> d[k].clause_id]

Lookup(d, cid) == d[CHOOSE k \in 1..Len(d) : d[k].clause_id = cid]

DictSet(d, c) ==
  IF c.clause_id \in Keys(d)
  THEN [k \in 1..Len(d) |-> IF d[k].clause_id = c.clause_id THEN c ELSE d[k]]
  ELSE Append(d, c)

(***************************************************************************)
(* _identify_editable_clauses: one left-to-right scan of the document.     *)
(***************************************************************************)
TacticPrefixes ==
  {"intro ", "exact ", "apply ", "rw ", "simp", "trivial", "rfl",
   "constructor", "cases ", "induction ", "unfold ", "left", "right",
   "split", "exfalso", "contradiction"}

\* re.match(r'have\s+(\w+)\s*:.*?:=\s*by\s*(.*)', stripped), for a stripped
\* line (no newline in it).  Greedy runs cannot usefully give characters
\* back here, so each run is taken whole; the lazy .*? stops at the first
\* ':=' that is followed by optional whitespace and 'by'.
HaveMatch(stripped) ==
  LET a  == SkipRun(stripped, 4, Whitespace)
      b  == SkipRun(stripped, a, WordChars)
      c  == SkipRun(stripped, b, Whitespace)
      js == {j \in (c + 1)..(Len(stripped) - 2) :
               /\ Slice(stripped, j, j + 2) = ":="
               /\ LET k == SkipRun(stripped, j + 2, Whitespace)
                  IN  Slice(stripped, k, k + 2) = "by"}
  IN  IF /\ StartsWith(stripped, "have")
         /\ a > 4
         /\ b > a
         /\ c < Len(stripped)
         /\ CharAt(stripped, c) = ":"
         /\ js # {}
      THEN LET j == MinOf(js)
               k == SkipRun(stripped, j + 2, Whitespace)
               m == SkipRun(stripped, k + 2, Whitespace)
           IN  [matched |-> TRUE, var_name |-> Slice(stripped, a, b),
                proof |-> SliceFrom(stripped, m)]
      ELSE [matched |-> FALSE, var_name |-> "", proof |-> ""]

\* Variant in which a placeholder on the declaration line is filed as a
\* sorry clause; used only to show that the properties below depend on how
\* the scan files it.
TheoremLineFilesSorry(acc, i, line) ==
  LET stripped == Strip(line)
      by_pos   == Find(stripped, ":= by")
      by_part  == Strip(SliceFrom(stripped, by_pos + 5))
      kind     == IF by_part = "sorry" THEN "sorry" ELSE "main_proof"
  IN  IF by_pos = -1 THEN acc
      ELSE IF by_part = "" THEN [acc EXCEPT !.main_proof_started = TRUE]
      ELSE [clauses |-> DictSet(acc.clauses,
                          EditableClause(kind \o "_" \o ToString(acc.clause_id),
                            Position(i, by_pos + 5), Position(i, Len(line)),
                            by_part, kind)),
            clause_id |-> acc.clause_id + 1,
            main_proof_started |-> TRUE]

\* a line whose stripped text starts with 'theorem'
TheoremLine(acc, i, line) ==
  LET stripped == Strip(line)
  IN  IF Contains(stripped, ":= by") THEN
        LET by_pos  == Find(stripped, ":= by")
            by_part == Strip(SliceFrom(stripped, by_pos + 5))
            acc1    == IF by_part # ""
                       THEN [acc EXCEPT
                               !.clauses = DictSet(acc.clauses,
                                 EditableClause(
                                   "main_proof_" \o ToString(acc.clause_id),
                                   Position(i, by_pos + 5),
                                   Position(i, Len(line)),
                                   by_part, "main_proof")),
                               !.clause_id = acc.clause_id + 1]
                       ELSE acc
        IN  [acc1 EXCEPT !.main_proof_started = TRUE]
      ELSE acc

\* the body of the scan loop for line number i (0-based); acc holds the
\* clause map built so far, the running clause_id and main_proof_started
ScanLine(acc, i, line) ==
  LET stripped == Strip(line)
      n        == ToString(acc.clause_id)
      put(c)   == [acc EXCEPT !.clauses = DictSet(acc.clauses, c),
                              !.clause_id = acc.clause_id + 1]
  IN  IF stripped = "" \/ StartsWith(stripped, "--") THEN acc
      ELSE IF StartsWith(stripped, "theorem") THEN TheoremLine(acc, i, line)
      ELSE IF ~acc.main_proof_started THEN acc
      ELSE IF StartsWith(stripped, "have ") THEN
        LET have_match == HaveMatch(stripped)
            proof_content == Strip(have_match.proof)
        IN  IF have_match.matched
            THEN put(EditableClause("have_" \o have_match.var_name,
                       Position(i, Find(line, "by") + 3),
                       Position(i, Len(line)),
                       IF proof_content # "" THEN proof_content ELSE "sorry",
                       "have"))
            ELSE acc
      ELSE IF Contains(stripped, "sorry") THEN
        LET sorry_pos == Find(line, "sorry")
        IN  put(EditableClause("sorry_" \o n,
                  Position(i, sorry_pos), Position(i, sorry_pos + 5),
                  "sorry", "sorry"))
      ELSE IF StartsWith(stripped, "by ") THEN
        put(EditableClause("tactic_block_" \o n,
              Position(i, Find(line, "by") + 3), Position(i, Len(line)),
              Strip(SliceFrom(stripped, 3)), "tactic_block"))
      ELSE IF \E tactic \in TacticPrefixes : StartsWith(stripped, tactic) THEN
        put(EditableClause("tactic_" \o n,
              Position(i, 0), Position(i, Len(line)), stripped, "tactic"))
      ELSE
        put(EditableClause("proof_line_" \o n,
              Position(i, 0), Position(i, Len(line)), stripped, "proof_line"))

RECURSIVE ScanFrom(_, _, _)
ScanFrom(acc, lines, i) ==
  IF i >= Len(lines) THEN acc
  ELSE ScanFrom(ScanLine(acc, i, lines[i + 1]), lines, i + 1)

\* Variant in which the scan numbers the lines from 1; used only to show
\* that the properties below depend on the line numbers.
RECURSIVE ScanFromOneBased(_, _, _)
ScanFromOneBased(acc, lines, i) ==
  IF i >= Len(lines) THEN acc
  ELSE ScanFromOneBased(ScanLine(acc, i + 1, lines[i + 1]), lines, i + 1)

IdentifyEditableClausesOneBased(code) ==
  ScanFromOneBased([clauses |-> <<>>, clause_id |-> 0,
                    main_proof_started |-> FALSE],
                   SplitLines(code), 0).clauses

\* the clause map _identify_editable_clauses stores for the document code
IdentifyEditableClauses(code) ==
  ScanFrom([clauses |-> <<>>, clause_id |-> 0, main_proof_started |-> FALSE],
           SplitLines(code), 0).clauses

(***************************************************************************)
(* _make_thread_unique_code: re.sub(r'theorem\s+(\w+)', ...) appends the   *)
(* thread suffix to every theorem name (and writes one space after the     *)
(* keyword).                                                               *)
(***************************************************************************)
RECURSIVE SubTheoremNames(_, _)
SubTheoremNames(code, suffix) ==
  LET i == Find(code, "theorem")
      a == SkipRun(code, i + 7, Whitespace)
      b == SkipRun(code, a, WordChars)
  IN  IF i = -1 THEN code
      ELSE IF a > i + 7 /\ b > a
      THEN Slice(code, 0, i) \o "theorem " \o Slice(code, a, b) \o suffix
             \o SubTheoremNames(SliceFrom(code, b), suffix)
      ELSE Slice(code, 0, i + 1) \o SubTheoremNames(SliceFrom(code, i + 1), suffix)

IdentModulus == 10000

\* f"_t{thread_id % 10000}_s{session_id}"
UniqueSuffix(thread_id, session_id) ==
  "_t" \o ToString(thread_id % IdentModulus) \o "_s" \o session_id

MakeThreadUniqueCode(code, thread_id, session_id) ==
  SubTheoremNames(code, UniqueSuffix(thread_id, session_id))

(***************************************************************************)
(* _parse_messages and _parse_goals.                                       *)
(***************************************************************************)
\* re.search(tag + r'\s*(.*?)(?=\n\n|\n\[|$)', response, re.DOTALL).group(1)
\* .strip(), for a response that contains tag
FirstBlock(response, tag) ==
  LET q    == SkipRun(response, Find(response, tag) + Len(tag), Whitespace)
      ends == {e \in q..Len(response) :
                 \/ Slice(response, e, e + 2) = "\n\n"
                 \/ Slice(response, e, e + 2) = "\n["
                 \/ e = Len(response)
                 \/ (e = Len(response) - 1 /\ CharAt(response, e) = "\n")}
  IN  Strip(Slice(response, q, MinOf(ends)))

\* _parse_messages with re.finditer in place of re.search: one message for
\* every tagged block of the response
ParseMessagesEveryBlock(response) ==
  LET at(tag) == {p \in 0..Len(response) :
                    Slice(response, p, p + Len(tag)) = tag}
      RECURSIVE blocks(_, _, _)
      blocks(tag, sev, from) ==
        LET rest == {p \in at(tag) : p >= from}
        IN  IF rest = {} THEN <<>>
            ELSE <<LeanMessage(sev, FirstBlock(SliceFrom(response, MinOf(rest)),
                                               tag))>>
                   \o blocks(tag, sev, MinOf(rest) + 1)
      found == blocks("[error]", "error", 0) \o blocks("[warning]", "warning", 0)
                 \o blocks("[info]", "info", 0)
  IN  IF response # "" /\ Strip(response) = "Success"
      THEN Append(found, LeanMessage("info", "Compilation successful"))
      ELSE IF found = <<>>
      THEN <<LeanMessage("info", "Compilation completed")>>
      ELSE found

ParseMessages(response) ==
  LET tagged(tag, sev) ==
        IF Contains(response, tag)
        THEN <<LeanMessage(sev, FirstBlock(response, tag))>>
        ELSE <<>>
      found == tagged("[error]", "error") \o tagged("[warning]", "warning")
                 \o tagged("[info]", "info")
  IN  IF response # "" /\ Strip(response) = "Success"
      THEN Append(found, LeanMessage("info", "Compilation successful"))
      ELSE IF found = <<>>
      THEN <<LeanMessage("info", "Compilation completed")>>
      ELSE found

\* one goal per line of the stored document that contains 'sorry', but only
\* when the verifier's response is not empty
RECURSIVE GoalsFrom(_, _)
GoalsFrom(lines, i) ==
  IF i >= Len(lines) THEN <<>>
  ELSE (IF Contains(lines[i + 1], "sorry")
        THEN <<ProofGoal("Goal at sorry on line " \o ToString(i + 1),
                         i, Find(lines[i + 1], "sorry"))>>
        ELSE <<>>) \o GoalsFrom(lines, i + 1)

ParseGoals(response, code) ==
  IF response # "" THEN GoalsFrom(SplitLines(code), 0) ELSE <<>>

HasSeverity(messages, sev) ==
  \E k \in 1..Len(messages) : messages[k].severity = sev

(***************************************************************************)
(* _compile_and_analyze.  state is the thread-local state, output what     *)
(* prover.run_command returned for unique_code.  The value is the new      *)
(* state and the returned dict.                                            *)
(***************************************************************************)
\* Variant that scans the copy sent to the verifier instead of the stored
\* document; used only to show that the properties below depend on which
\* text is scanned.
AnalyzeScansSentCode(state, unique_code, output) ==
  [state EXCEPT !.compilation_id = state.compilation_id + 1,
                !.prover = [calls |-> state.prover.calls + 1,
                            last_command |-> unique_code],
                !.current_messages = ParseMessages(output.response),
                !.current_goals = ParseGoals(output.response, state.current_code),
                !.editable_clauses = IdentifyEditableClauses(unique_code)]

\* Variant that scans the document only while the clause map is empty and
\* keeps a map it already has; used only to show that the properties below
\* depend on the rescan after every compilation.
AnalyzeKeepsClauseMap(state, unique_code, output) ==
  [state EXCEPT !.compilation_id = state.compilation_id + 1,
                !.prover = [calls |-> state.prover.calls + 1,
                            last_command |-> unique_code],
                !.current_messages = ParseMessages(output.response),
                !.current_goals = ParseGoals(output.response, state.current_code),
                !.editable_clauses =
                   IF state.editable_clauses = <<>>
                   THEN IdentifyEditableClauses(state.current_code)
                   ELSE state.editable_clauses]

\* Variant that counts a compilation only when the verifier returned some
\* output; used only to show that the properties below depend on the counter
\* being incremented before the verifier runs.
AnalyzeCountsOutputs(state, unique_code, output) ==
  [state EXCEPT !.compilation_id =
                   IF output.response # "" THEN state.compilation_id + 1
                   ELSE state.compilation_id,
                !.prover = [calls |-> state.prover.calls + 1,
                            last_command |-> unique_code],
                !.current_messages = ParseMessages(output.response),
                !.current_goals = ParseGoals(output.response, state.current_code),
                !.editable_clauses = IdentifyEditableClauses(state.current_code)]

\* the state after the counter is incremented, the verifier has run and its
\* output and the stored document have been analysed
Analyze(state, unique_code, output) ==
  [state EXCEPT !.compilation_id = state.compilation_id + 1,
                !.prover = [calls |-> state.prover.calls + 1,
                            last_command |-> unique_code],
                !.current_messages = ParseMessages(output.response),
                !.current_goals = ParseGoals(output.response, state.current_code),
                !.editable_clauses = IdentifyEditableClauses(state.current_code)]

\* Variant in which a warning also blocks success; used only to show that
\* the properties below depend on the success rule.
CompilationDictWarningsBlock(state) ==
  LET has_errors == HasSeverity(state.current_messages, "error")
      has_warnings == HasSeverity(state.current_messages, "warning")
  IN  [success |-> ~has_errors /\ ~has_warnings,
       has_errors |-> has_errors,
       has_warnings |-> has_warnings,
       messages |-> state.current_messages,
       goals |-> state.current_goals,
       editable_clauses |-> KeyList(state.editable_clauses),
       compilation_id |-> state.compilation_id]

\* the dict _compile_and_analyze returns, read from the analysed state
CompilationDict(state) ==
  LET has_errors == HasSeverity(state.current_messages, "error")
  IN  [success |-> ~has_errors,
       has_errors |-> has_errors,
       has_warnings |-> HasSeverity(state.current_messages, "warning"),
       messages |-> state.current_messages,
       goals |-> state.current_goals,
       editable_clauses |-> KeyList(state.editable_clauses),
       compilation_id |-> state.compilation_id]

CompileAndAnalyze(state, unique_code, output) ==
  LET new_state == Analyze(state, unique_code, output)
  IN  [state |-> new_state, ret |-> CompilationDict(new_state)]

(***************************************************************************)
(* Thread-local state (_get_agent_state).  Every public method starts by   *)
(* fetching it, which creates it on the thread's first call.               *)
(***************************************************************************)
ThreadIds == {1, 2}

\* threading.get_ident() of a thread
IdentBase == 140245

GetIdent(t) == IdentBase + t

\* str(uuid.uuid4())[:8] drawn when the thread's state is created
SessionIdOf(t) == "5e5500" \o ToString(t)

NoProver == [calls |-> -1, last_command |-> ""]

\* what the property accessors show of a thread that has no state yet
Unset ==
  [prover |-> NoProver, current_code |-> "", current_messages |-> <<>>,
   current_goals |-> <<>>, editable_clauses |-> <<>>, compilation_id |-> 0,
   thread_id |-> 0, session_id |-> ""]

\* Variant that keeps one state on the agent instead of one per thread: a
\* thread without state of its own starts from the state another thread has
\* created; used only to show that the properties below depend on the state
\* being thread-local.
GetAgentStateOfInstance(tl, t) ==
  IF tl[t].prover = NoProver
  THEN IF \E u \in DOMAIN tl : tl[u].prover # NoProver
       THEN tl[CHOOSE u \in DOMAIN tl : tl[u].prover # NoProver]
       ELSE [Unset EXCEPT !.prover = [calls |-> 0, last_command |-> ""],
                          !.thread_id = GetIdent(t),
                          !.session_id = SessionIdOf(t)]
  ELSE tl[t]

GetAgentState(tl, t) ==
  IF tl[t].prover = NoProver
  THEN [Unset EXCEPT !.prover = [calls |-> 0, last_command |-> ""],
                     !.thread_id = GetIdent(t),
                     !.session_id = SessionIdOf(t)]
  ELSE tl[t]

(***************************************************************************)
(* load_theorem                                                            *)
(***************************************************************************)
\* Variant that stores the thread-unique copy as the document; used only to
\* show that the properties below depend on what load_theorem stores.
LoadTheoremStoresUniqueCode(state0, theorem_code, ident, output) ==
  LET modified_code == MakeThreadUniqueCode(theorem_code, ident, state0.session_id)
  IN  CompileAndAnalyze([state0 EXCEPT !.current_code = modified_code],
                        modified_code, output)

LoadTheorem(state0, theorem_code, ident, output) ==
  LET state == [state0 EXCEPT !.current_code = theorem_code]
      modified_code == MakeThreadUniqueCode(theorem_code, ident, state.session_id)
  IN  CompileAndAnalyze(state, modified_code, output)

(***************************************************************************)
(* edit_clause                                                             *)
(***************************************************************************)
\* Variant in which the new text is written after the placeholder instead of
\* over it; used only to show that the properties below depend on the
\* replacement.
NewLineKeepsPlaceholder(clause, line, new_content) ==
  LET ctype == clause.clause_type
  IN  IF ctype = "sorry" THEN line \o " " \o new_content
      ELSE IF ctype \in {"have", "tactic_block"} THEN
        LET by_pos == Find(line, "by")
        IN  IF by_pos # -1 THEN Slice(line, 0, by_pos + 2) \o " " \o new_content
            ELSE line
      ELSE IF ctype = "main_proof" THEN
        LET by_pos == Find(line, ":= by")
        IN  IF by_pos # -1 THEN Slice(line, 0, by_pos + 5) \o " " \o new_content
            ELSE line
      ELSE IF ctype \in {"tactic", "proof_line"} THEN
        Spaces(Len(line) - Len(LStrip(line))) \o new_content
      ELSE Slice(line, 0, clause.start_pos.column) \o new_content

\* the line that replaces the clause's owning line
NewLine(clause, line, new_content) ==
  LET ctype == clause.clause_type
  IN  IF ctype = "sorry" THEN Replace(line, "sorry", new_content)
      ELSE IF ctype \in {"have", "tactic_block"} THEN
        LET by_pos == Find(line, "by")
        IN  IF by_pos # -1 THEN Slice(line, 0, by_pos + 2) \o " " \o new_content
            ELSE line
      ELSE IF ctype = "main_proof" THEN
        LET by_pos == Find(line, ":= by")
        IN  IF by_pos # -1 THEN Slice(line, 0, by_pos + 5) \o " " \o new_content
            ELSE line
      ELSE IF ctype \in {"tactic", "proof_line"} THEN
        Spaces(Len(line) - Len(LStrip(line))) \o new_content
      ELSE Slice(line, 0, clause.start_pos.column) \o new_content

NotFound(clause_id) == [error |-> "Clause '" \o clause_id \o "' not found"]

\* the code after the clause lookup: apply the edit and recompile
ApplyEdit(state, clause_id, new_content, output) ==
  LET clause   == Lookup(state.editable_clauses, clause_id)
      lines    == SplitLines(state.current_code)
      line_idx == clause.start_pos.line
  IN  IF line_idx >= Len(lines)
      THEN [state |-> state, ret |-> [raised |-> "IndexError"]]
      ELSE
        LET new_line  == NewLine(clause, lines[line_idx + 1], new_content)
            new_lines == [lines EXCEPT ![line_idx + 1] = new_line]
            edited    == [state EXCEPT !.current_code = JoinLines(new_lines)]
            compiled  == CompileAndAnalyze(edited,
                           MakeThreadUniqueCode(edited.current_code,
                                                state.thread_id,
                                                state.session_id),
                           output)
        IN  [state |-> compiled.state,
             ret   |-> [clause_id |-> clause_id,
                        clause_type |-> clause.clause_type,
                        old_content |-> clause.content,
                        new_content |-> new_content,
                        compilation_result |-> compiled.ret,
                        updated_code |-> compiled.state.current_code,
                        edit_successful |-> TRUE]]

\* Variant that recompiles the document before reporting an unknown id; used
\* only to show that the properties below depend on the early return.
EditClauseRecompilesOnMiss(state, clause_id, new_content, output) ==
  IF clause_id \notin Keys(state.editable_clauses)
  THEN [state |-> CompileAndAnalyze(state,
                    MakeThreadUniqueCode(state.current_code, state.thread_id,
                                         state.session_id), output).state,
        ret |-> NotFound(clause_id)]
  ELSE ApplyEdit(state, clause_id, new_content, output)

EditClause(state, clause_id, new_content, output) ==
  IF clause_id \notin Keys(state.editable_clauses)
  THEN [state |-> state, ret |-> NotFound(clause_id)]
  ELSE ApplyEdit(state, clause_id, new_content, output)

(***************************************************************************)
(* add_proof_structure                                                     *)
(***************************************************************************)
RECURSIVE IndentLines(_)
IndentLines(structure_lines) ==
  IF Len(structure_lines) = 0 THEN <<>>
  ELSE LET line == Head(structure_lines)
       IN  (IF Strip(line) = "" THEN <<>>
            ELSE IF ~StartsWith(line, "  ") THEN <<"  " \o Strip(line)>>
            ELSE <<RStrip(line)>>) \o IndentLines(Tail(structure_lines))

MainProofClauses(d) ==
  SelectSeq(KeyList(d),
            LAMBDA cid : StartsWith(cid, "main_proof_") \/ StartsWith(cid, "sorry_"))

NoMainProof == [error |-> "No main proof clause found to add structure to"]

\* Variant that falls back to the first clause of the map when no main proof
\* clause is found; used only to show that the properties below depend on
\* the early return.
AddProofStructureFallsBack(state, structure_lines, output) ==
  LET new_structure == JoinLines(IndentLines(structure_lines))
      main_proof_clauses == MainProofClauses(state.editable_clauses)
  IN  IF main_proof_clauses = <<>>
      THEN IF state.editable_clauses = <<>>
           THEN [state |-> state, ret |-> NoMainProof]
           ELSE EditClause(state, state.editable_clauses[1].clause_id,
                           new_structure, output)
      ELSE EditClause(state, main_proof_clauses[1], new_structure, output)

\* Variant that edits the last main proof clause instead of the first; used
\* only to show that the properties below depend on which clause is edited.
AddProofStructureEditsLast(state, structure_lines, output) ==
  LET new_structure == JoinLines(IndentLines(structure_lines))
      main_proof_clauses == MainProofClauses(state.editable_clauses)
  IN  IF main_proof_clauses = <<>>
      THEN [state |-> state, ret |-> NoMainProof]
      ELSE EditClause(state, main_proof_clauses[Len(main_proof_clauses)],
                      new_structure, output)

AddProofStructure(state, structure_lines, output) ==
  LET new_structure == JoinLines(IndentLines(structure_lines))
      main_proof_clauses == MainProofClauses(state.editable_clauses)
  IN  IF main_proof_clauses = <<>>
      THEN [state |-> state, ret |-> NoMainProof]
      ELSE EditClause(state, main_proof_clauses[1], new_structure, output)

(***************************************************************************)
(* get_interactive_panel and suggest_next_actions                          *)
(***************************************************************************)
MessageStr(msg) ==
  "[" \o msg.severity \o "] " \o msg.message \o " at line "
    \o ToString(msg.start_pos.line + 1)

GoalTextShown == 100

GoalStr(goal) ==
  "Goal at line " \o ToString(goal.position.line + 1) \o ": "
    \o Slice(goal.goal_text, 0, GoalTextShown) \o "..."

\* Variant that reports the number of the next compilation; used only to
\* show that the properties below depend on the values the panel returns.
GetInteractivePanelNextId(state) ==
  [current_code |-> state.current_code,
   messages |-> [k \in 1..Len(state.current_messages) |->
                   MessageStr(state.current_messages[k])],
   goals |-> [k \in 1..Len(state.current_goals) |->
                GoalStr(state.current_goals[k])],
   editable_clauses |->
     [k \in 1..Len(state.editable_clauses) |->
        <<state.editable_clauses[k].clause_id,
          state.editable_clauses[k].clause_type \o ": "
            \o state.editable_clauses[k].content>>],
   compilation_id |-> state.compilation_id + 1]

GetInteractivePanel(state) ==
  [current_code |-> state.current_code,
   messages |-> [k \in 1..Len(state.current_messages) |->
                   MessageStr(state.current_messages[k])],
   goals |-> [k \in 1..Len(state.current_goals) |->
                GoalStr(state.current_goals[k])],
   editable_clauses |->
     [k \in 1..Len(state.editable_clauses) |->
        <<state.editable_clauses[k].clause_id,
          state.editable_clauses[k].clause_type \o ": "
            \o state.editable_clauses[k].content>>],
   compilation_id |-> state.compilation_id]

\* Variant that puts the warnings advice before the sorry advice; used only
\* to show that the properties below depend on the order of the advice.
SuggestNextActionsWarningsFirst(state) ==
  LET sorry_clauses ==
        SelectSeq(state.editable_clauses, LAMBDA c : c.clause_type = "sorry")
      suggestions ==
        (IF HasSeverity(state.current_messages, "error")
         THEN <<"Fix compilation errors first">> ELSE <<>>)
        \o (IF HasSeverity(state.current_messages, "warning")
            THEN <<"Address compiler warnings">> ELSE <<>>)
        \o (IF sorry_clauses # <<>>
            THEN <<"Work on sorry clauses: " \o
                   Join(KeyList(sorry_clauses), ", ")>> ELSE <<>>)
  IN  IF suggestions = <<>> THEN <<"Proof looks complete!">> ELSE suggestions

SuggestNextActions(state) ==
  LET sorry_clauses ==
        SelectSeq(state.editable_clauses, LAMBDA c : c.clause_type = "sorry")
      suggestions ==
        (IF HasSeverity(state.current_messages, "error")
         THEN <<"Fix compilation errors first">> ELSE <<>>)
        \o (IF sorry_clauses # <<>>
            THEN <<"Work on sorry clauses: " \o
                   Join(KeyList(sorry_clauses), ", ")>> ELSE <<>>)
        \o (IF HasSeverity(state.current_messages, "warning")
            THEN <<"Address compiler warnings">> ELSE <<>>)
  IN  IF suggestions = <<>> THEN <<"Proof looks complete!">> ELSE suggestions

(***************************************************************************)
(* The verifier (LeanProver.run_command).  It is an external collaborator: *)
(* each call returns one of these outputs, whatever the document.  A       *)
(* timeout comes back as an error diagnostic; malformed output is text     *)
(* without any severity tag; empty output is the empty string.             *)
(***************************************************************************)
VerifierOutputs ==
  {[kind |-> "completed", response |-> "Success"],
   [kind |-> "completed", response |-> "[warning] declaration uses sorry"],
   [kind |-> "completed",
    response |-> "[error] unsolved goals\n[warning] unused h\n[warning] unused k"],
   [kind |-> "timeout",   response |-> "[error] timeout"],
   [kind |-> "malformed", response |-> "<html>502"],
   [kind |-> "empty",     response |-> ""]}

FailedKinds == {"timeout", "malformed", "empty"}

(***************************************************************************)
(* Inputs of the calls.                                                    *)
(***************************************************************************)
Documents ==
  {"theorem t (A B : Prop) : A -> A := by sorry",
   "theorem t : P := by\n  have h1 : P := by sorry\n  have hby : P := by\n    simp\n  exact h1",
   "theorem t : P := by\n  sorry",
   "theorem t : P := by\n  -- sorry later\n\n  by simp\n  intro h \n  done",
   "-- draft\ntheorem  t : P :=\n  by sorry",
   "theorem t : P := by\n  have h : P := by sorry\n  have h : Q := by\n    simp\n  exact sorry -- sorry",
   "theorem t : P := by sorry\n  sorry"}

TextPool == {"sorry", "simp", ""}

ClauseIdPool == {"main_proof_0", "sorry_1", "have_zz"}

StructurePool ==
  {<<"have h2 : P := by sorry", "", "    exact h2  ">>, <<"intro x">>}

\* the number of compilations a session is followed for
MaxCompilations == 2

(***************************************************************************)
(* State.                                                                  *)
(***************************************************************************)
VARIABLES
  threads,       \* the threads that use the agent
  thread_local,  \* self._thread_local: the state of each thread
  call,          \* the call that has just returned: method, thread, arguments
  result         \* what it returned (or raised), until the caller takes it

vars == <<threads, thread_local, call, result>>

\* between calls: the caller holds no result
NoCall == [op |-> "idle"]

NoResult == [none |-> TRUE]

Init ==
  /\ threads = {1}
  /\ thread_local = [t \in ThreadIds |-> Unset]
  /\ call = NoCall
  /\ result = NoResult

\* the clause ids and texts a caller passes to edit_clause
EditIds(state) == Keys(state.editable_clauses) \cup ClauseIdPool

EditTexts(state) ==
  TextPool \cup {state.editable_clauses[k].content :
                   k \in 1..Len(state.editable_clauses)}

\* a session is used by one caller, which makes its calls one after another
Returns(t, outcome) ==
  \E r \in {outcome} :
    /\ call = NoCall
    /\ thread_local' = [thread_local EXCEPT ![t] = r.state]
    /\ result' = r.ret
    /\ UNCHANGED threads

DoLoadTheorem(t) ==
  \E theorem_code \in Documents, output \in VerifierOutputs :
    LET state == GetAgentState(thread_local, t)
    IN  /\ call = NoCall
        /\ state.compilation_id < MaxCompilations
        /\ call' = [op |-> "load_theorem", thread |-> t,
                    theorem_code |-> theorem_code, verifier |-> output.kind]
        /\ Returns(t, LoadTheorem(state, theorem_code, GetIdent(t), output))

DoEditClause(t) ==
  LET state == GetAgentState(thread_local, t)
  IN  \E clause_id \in EditIds(state), new_content \in EditTexts(state),
         output \in VerifierOutputs :
        LET known == clause_id \in Keys(state.editable_clauses)
        IN  /\ call = NoCall
            /\ known => state.compilation_id < MaxCompilations
            /\ ~known => output.kind = "completed" /\ output.response = "Success"
            /\ call' = [op |-> "edit_clause", thread |-> t,
                        clause_id |-> clause_id, new_content |-> new_content,
                        verifier |-> IF known THEN output.kind ELSE "not called"]
            /\ Returns(t, EditClause(state, clause_id, new_content, output))

DoAddProofStructure(t) ==
  LET state == GetAgentState(thread_local, t)
  IN  \E structure_lines \in StructurePool, output \in VerifierOutputs :
        LET found == MainProofClauses(state.editable_clauses) # <<>>
        IN  /\ call = NoCall
            /\ found => state.compilation_id < MaxCompilations
            /\ ~found => output.kind = "completed" /\ output.response = "Success"
            /\ call' = [op |-> "add_proof_structure", thread |-> t,
                        structure_lines |-> structure_lines,
                        verifier |-> IF found THEN output.kind ELSE "not called"]
            /\ Returns(t, AddProofStructure(state, structure_lines, output))

DoGetInteractivePanel(t) ==
  LET state == GetAgentState(thread_local, t)
  IN  /\ call' = [op |-> "get_interactive_panel", thread |-> t]
      /\ Returns(t, [state |-> state, ret |-> GetInteractivePanel(state)])

DoSuggestNextActions(t) ==
  LET state == GetAgentState(thread_local, t)
  IN  /\ call' = [op |-> "suggest_next_actions", thread |-> t]
      /\ Returns(t, [state |-> state, ret |-> SuggestNextActions(state)])

\* the caller takes the returned value and is ready for its next call
TakeResult ==
  /\ call # NoCall
  /\ call' = NoCall
  /\ result' = NoResult
  /\ UNCHANGED <<threads, thread_local>>

Next ==
  \/ TakeResult
  \/ \E t \in threads : DoLoadTheorem(t)
  \/ \E t \in threads : DoEditClause(t)
  \/ \E t \in threads : DoAddProofStructure(t)
  \/ \E t \in threads : DoGetInteractivePanel(t)
  \/ \E t \in threads : DoSuggestNextActions(t)

Spec == Init /\ [][Next]_vars

(***************************************************************************)
(* One agent instance used by two threads.  Each call is made by one of    *)
(* the threads on the shared instance; the calls of the two threads        *)
(* interleave in every order.                                              *)
(***************************************************************************)
SharedDocuments ==
  {"theorem t (A B : Prop) : A -> A := by sorry",
   "theorem t : P := by\n  sorry\n  done"}

SharedOutputs ==
  {[kind |-> "completed", response |-> "Success"],
   [kind |-> "completed", response |-> "[error] unsolved goals\n[warning] unused h"]}

SharedTexts == {"simp"}

SharedStructures == {<<"intro x">>}

InitShared ==
  /\ threads = ThreadIds
  /\ thread_local = [t \in ThreadIds |-> Unset]
  /\ call = NoCall
  /\ result = NoResult

SharedLoadTheorem(t) ==
  \E theorem_code \in SharedDocuments, output \in SharedOutputs :
    LET state == GetAgentState(thread_local, t)
    IN  /\ state.compilation_id < MaxCompilations
        /\ call' = [op |-> "load_theorem", thread |-> t,
                    theorem_code |-> theorem_code, verifier |-> output]
        /\ Returns(t, LoadTheorem(state, theorem_code, GetIdent(t), output))

SharedEditClause(t) ==
  LET state == GetAgentState(thread_local, t)
  IN  \E clause_id \in Keys(state.editable_clauses) \cup {"have_zz"},
         new_content \in SharedTexts, output \in SharedOutputs :
        /\ state.compilation_id < MaxCompilations
        /\ call' = [op |-> "edit_clause", thread |-> t,
                    clause_id |-> clause_id, new_content |-> new_content,
                    verifier |-> output]
        /\ Returns(t, EditClause(state, clause_id, new_content, output))

SharedAddProofStructure(t) ==
  LET state == GetAgentState(thread_local, t)
  IN  \E structure_lines \in SharedStructures, output \in SharedOutputs :
        /\ state.compilation_id < MaxCompilations
        /\ call' = [op |-> "add_proof_structure", thread |-> t,
                    structure_lines |-> structure_lines, verifier |-> output]
        /\ Returns(t, AddProofStructure(state, structure_lines, output))

NextShared ==
  \/ TakeResult
  \/ \E t \in threads : SharedLoadTheorem(t)
  \/ \E t \in threads : SharedEditClause(t)
  \/ \E t \in threads : SharedAddProofStructure(t)
  \/ \E t \in threads : DoGetInteractivePanel(t)
  \/ \E t \in threads : DoSuggestNextActions(t)

SpecShared == InitShared /\ [][NextShared]_vars


(***************************************************************************)
(* BaseMetrics._add_std_metrics as tests/test_base_metrics.py drives it.   *)
(* Scores are 0 or 1.  A float result is held in fixed point, as the       *)
(* number of whole units of 1/Scale in it; variances are kept as exact     *)
(* fractions until the square root is taken.                               *)
(***************************************************************************)
Scale == 1000

\* the largest r in lo..hi with r * r <= x
RECURSIVE ISqrtIn(_, _, _)
ISqrtIn(x, lo, hi) ==
  IF lo >= hi THEN lo
  ELSE LET mid == (lo + hi + 1) \div 2
       IN  IF mid * mid <= x THEN ISqrtIn(x, mid, hi)
           ELSE ISqrtIn(x, lo, mid - 1)

\* sqrt(num / den) in units of 1/Scale, rounded down
FixedSqrt(num, den) == ISqrtIn((num * Scale * Scale) \div den, 0, 2 * Scale)

RECURSIVE SumSeq(_)
SumSeq(xs) == IF Len(xs) = 0 THEN 0 ELSE Head(xs) + SumSeq(Tail(xs))

\* Variant that divides by the number of values, the population variance;
\* used only to show that the properties below depend on the divisor.
PopulationVariance(xs) ==
  LET k == Len(xs)
  IN  [num |-> k * SumSeq([j \in 1..k |-> xs[j] * xs[j]])
                 - SumSeq(xs) * SumSeq(xs),
       den |-> k * k]

\* the sample variance of the values xs (divisor len - 1), as a fraction
SampleVariance(xs) ==
  LET k == Len(xs)
  IN  [num |-> k * SumSeq([j \in 1..k |-> xs[j] * xs[j]])
                 - SumSeq(xs) * SumSeq(xs),
       den |-> k * (k - 1)]

\* for each of the first k runs, the sum of its scores over all problems
RunTotals(scores_list, k) ==
  [j \in 1..k |-> SumSeq([i \in 1..Len(scores_list) |-> scores_list[i][j]])]

\* the entries _add_std_metrics writes for the first k runs
StdMetrics(scores_list, k) ==
  LET n      == Len(scores_list)
      across == SampleVariance(RunTotals(scores_list, k))
      sample(i) == SampleVariance(SubSeq(scores_list[i], 1, k))
  IN  [correct_std_dev_across_runs |->
         FixedSqrt(across.num, across.den * n * n),
       correct_avg_sample_std_dev |->
         SumSeq([i \in 1..n |-> FixedSqrt(sample(i).num, sample(i).den)])
           \div n,
       correct_std_err_across_runs |->
         FixedSqrt(across.num, across.den * n * n * k)]

EvalMode(k) == "pass@1[avg-of-" \o ToString(k) \o "]"

\* metrics_dict after _add_std_metrics, for all_scores = {"correct": scores_list}
AddStdMetrics(max_k, scores_list, metrics_dict) ==
  [mode \in DOMAIN metrics_dict |->
     IF \E k \in 2..max_k : mode = EvalMode(k)
     THEN StdMetrics(scores_list, CHOOSE k \in 2..max_k : mode = EvalMode(k))
     ELSE metrics_dict[mode]]

\* the dict the test passes in: an empty entry for every k in 2..max_k
EmptyMetricsDict(max_k) == [mode \in {EvalMode(k) : k \in 2..max_k} |-> <<>>]

\* the parametrised cases of test_add_std_metrics; the expected floats are
\* written in units of 1/Scale, rounded down (0.7071067811865476 is 707)
Expected(std_dev, avg_sample, std_err) ==
  [correct_std_dev_across_runs |-> std_dev,
   correct_avg_sample_std_dev |-> avg_sample,
   correct_std_err_across_runs |-> std_err]

TestCases ==
  {[max_k |-> 1, scores_list |-> <<(<<1>>)>>,
    expected_result |-> <<>>],
   [max_k |-> 2, scores_list |-> << <<1, 0>>, <<0, 1>> >>,
    expected_result |-> <<Expected(0, 707, 0)>>],
   [max_k |-> 3,
    scores_list |-> << <<1, 0, 1>>, <<0, 1, 0>>, <<1, 1, 1>> >>,
    expected_result |-> <<Expected(0, 471, 0), Expected(0, 384, 0)>>],
   [max_k |-> 4,
    scores_list |-> << <<1, 0, 1, 0>>, <<1, 1, 0, 0>>, <<0, 1, 1, 1>> >>,
    expected_result |-> <<Expected(0, 471, 0), Expected(0, 577, 0),
                          Expected(166, 551, 83)>>],
   [max_k |-> 5,
    scores_list |-> << <<1, 0, 1, 1, 0>>, <<0, 1, 0, 1, 1>>,
                       <<1, 1, 1, 0, 0>>, <<0, 0, 1, 1, 1>> >>,
    expected_result |-> <<Expected(0, 353, 0), Expected(144, 433, 83),
                          Expected(144, 538, 72), Expected(136, 547, 61)>>],
   [max_k |-> 2, scores_list |-> << <<1, 1>>, <<1, 1>>, <<0, 0>> >>,
    expected_result |-> <<Expected(0, 0, 0)>>]}

\* abs(actual_value - expected_value) < 1e-10, in fixed point: the two
\* differ by no more than the rounding of the last unit
Tolerance == 1

\* further inputs: every 0/1 score table of up to MaxProblems problems and
\* MaxRuns runs, with every max_k up to the number of runs
MaxProblems == 2

MaxRuns == 3

ScoreTables ==
  UNION {[1..n -> [1..MaxRuns -> {0, 1}]] : n \in 1..MaxProblems}

MetricsInputs ==
  {[max_k |-> c.max_k, scores_list |-> c.scores_list] : c \in TestCases}
    \cup {[max_k |-> k, scores_list |-> table] :
            k \in 1..MaxRuns, table \in ScoreTables}

InitMetrics ==
  /\ threads = {}
  /\ thread_local = [t \in ThreadIds |-> Unset]
  /\ call = NoCall
  /\ result = NoResult

\* the body of test_add_std_metrics up to its assertions
DoAddStdMetrics ==
  \E input \in MetricsInputs :
    /\ call = NoCall
    /\ call' = [op |-> "_add_std_metrics", max_k |-> input.max_k,
                scores_list |-> input.scores_list]
    /\ result' = AddStdMetrics(input.max_k, input.scores_list,
                               EmptyMetricsDict(input.max_k))
    /\ UNCHANGED <<threads, thread_local>>

NextMetrics ==
  \/ TakeResult
  \/ DoAddStdMetrics

SpecMetrics == InitMetrics /\ [][NextMetrics]_vars

(***************************************************************************)
(* Properties.                                                             *)
(***************************************************************************)
\* the session of the thread whose call has just returned
Session == thread_local[call.thread]

\* the call that has just returned went through _compile_and_analyze
Compiled ==
  \/ call.op = "load_theorem"
  \/ /\ call.op \in {"edit_clause", "add_proof_structure"}
     /\ "edit_successful" \in DOMAIN result

\* the dict _compile_and_analyze returned to that call
Compilation ==
  IF call.op = "load_theorem" THEN result ELSE result.compilation_result

\* how often the thread's verifier has been invoked
VerifierCalls(state) == IF state.prover = NoProver THEN 0 ELSE state.prover.calls

\* what a caller can observe of a session
SessionView(state) ==
  <<state.current_code, state.editable_clauses, state.current_messages,
    state.current_goals, state.compilation_id, VerifierCalls(state)>>

\* C1: after load_theorem(doc) the panel shows doc exactly, and the stored
\* document never carries the thread-unique theorem names, whatever edits
\* follow; only the verifier's copy is renamed.
C1_LoadKeepsDocument ==
  /\ call.op = "load_theorem" =>
       GetInteractivePanel(Session).current_code = call.theorem_code
  /\ \A t \in threads :
       ~Contains(thread_local[t].current_code,
                 UniqueSuffix(GetIdent(t), SessionIdOf(t)))

C1_Witness ==
  /\ call.op = "load_theorem"
  /\ Contains(Session.prover.last_command,
              UniqueSuffix(GetIdent(call.thread), SessionIdOf(call.thread)))
  /\ Session.current_code = call.theorem_code

\* C2: a compile result has success exactly when the session's messages
\* hold no message of severity error; warnings do not matter.
C2_SuccessIffNoError ==
  Compiled =>
    (Compilation.success <=> ~HasSeverity(Session.current_messages, "error"))

C2_Witness ==
  /\ Compiled
  /\ Compilation.success
  /\ HasSeverity(Session.current_messages, "warning")

\* C3: edit_clause with an id that is not in the clause map returns the
\* clause-not-found error and leaves document, clause map, messages, goals
\* and counter as they were, without a verifier call.
C3_UnknownIdLeavesSession ==
  [][\A t \in threads :
       (/\ call = NoCall
        /\ call'.op = "edit_clause"
        /\ call'.thread = t
        /\ call'.clause_id \notin Keys(thread_local[t].editable_clauses))
       => /\ result' = NotFound(call'.clause_id)
          /\ SessionView(thread_local'[t]) = SessionView(thread_local[t])]_vars

C3_Witness ==
  /\ call.op = "edit_clause"
  /\ result = NotFound(call.clause_id)
  /\ Session.editable_clauses # <<>>
  /\ Session.compilation_id > 0

\* C4: when the verifier call times out or returns malformed or empty
\* output, the call does not raise, the messages hold an error with
\* diagnostic text and the compile result has success = FALSE.
C4_FailedVerificationIsError ==
  (Compiled /\ call.verifier \in FailedKinds) =>
    /\ \E k \in 1..Len(Session.current_messages) :
         /\ Session.current_messages[k].severity = "error"
         /\ Session.current_messages[k].message # ""
    /\ ~Compilation.success

\* C5: after a failed verification the clause map and the goals are those
\* of the stored document and everything belongs to one document version.
C5_FailedVerificationKeepsSession ==
  (Compiled /\ call.verifier \in FailedKinds) =>
    /\ Session.editable_clauses = IdentifyEditableClauses(Session.current_code)
    /\ Session.current_goals = GoalsFrom(SplitLines(Session.current_code), 0)
    /\ Compilation.compilation_id = Session.compilation_id
    /\ Compilation.editable_clauses = KeyList(Session.editable_clauses)

\* C6: the clause map is always the scan of the current document alone,
\* whatever the verifier returned and whatever calls came before.
C6_ClauseMapIsScanOfDocument ==
  \A t \in threads :
    thread_local[t].editable_clauses =
      IdentifyEditableClauses(thread_local[t].current_code)

C6_Witness ==
  /\ call.op = "edit_clause"
  /\ Compiled
  /\ call.verifier \in FailedKinds
  /\ Len(Session.editable_clauses) >= 2
  /\ Session.compilation_id = MaxCompilations

\* a clause lies inside the document made of lines
InDocument(clause, lines) ==
  /\ clause.start_pos.line = clause.end_pos.line
  /\ 0 <= clause.start_pos.line
  /\ clause.start_pos.line < Len(lines)
  /\ 0 <= clause.start_pos.column
  /\ clause.start_pos.column <= clause.end_pos.column
  /\ clause.end_pos.column <= Len(lines[clause.start_pos.line + 1])

\* C7: every clause of the clause map refers to a range inside the current
\* document: a valid line and 0 <= start column <= end column <= its length.
C7_ClausesInsideDocument ==
  \A t \in threads :
    \A k \in 1..Len(thread_local[t].editable_clauses) :
      InDocument(thread_local[t].editable_clauses[k],
                 SplitLines(thread_local[t].current_code))

\* C8: edit_clause with a key of the current clause map never raises an
\* index fault and returns edit_successful = TRUE.
C8_KnownIdEditSucceeds ==
  [][\A t \in threads :
       (/\ call = NoCall
        /\ call'.op = "edit_clause"
        /\ call'.thread = t
        /\ call'.clause_id \in Keys(thread_local[t].editable_clauses))
       => /\ "edit_successful" \in DOMAIN result'
          /\ result'.edit_successful]_vars

C8_Witness ==
  /\ call.op = "edit_clause"
  /\ Compiled
  /\ result.clause_type = "have"
  /\ Session.compilation_id = MaxCompilations
  /\ Len(SplitLines(Session.current_code)) = Session.editable_clauses[
       Len(Session.editable_clauses)].start_pos.line + 1

\* C9: editing a clause with its own content leaves the document unchanged
\* character for character and invokes the verifier exactly once.
C9_OwnContentEditKeepsDocument ==
  [][\A t \in threads :
       (/\ call = NoCall
        /\ call'.op = "edit_clause"
        /\ call'.thread = t
        /\ call'.clause_id \in Keys(thread_local[t].editable_clauses)
        /\ call'.new_content =
             Lookup(thread_local[t].editable_clauses, call'.clause_id).content)
       => /\ thread_local'[t].current_code = thread_local[t].current_code
          /\ VerifierCalls(thread_local'[t]) =
               VerifierCalls(thread_local[t]) + 1]_vars

\* a document of one line, a theorem whose proof is the placeholder
OneLineSorryTheorem(code) ==
  /\ Len(SplitLines(code)) = 1
  /\ StartsWith(Strip(code), "theorem")
  /\ Contains(code, ":= by")
  /\ Strip(SliceFrom(Strip(code), Find(Strip(code), ":= by") + 5)) = "sorry"

\* C10 as stated: loading such a theorem yields exactly one clause, of
\* category sorry.
C10_OneLineTheoremYieldsSorryClause ==
  (call.op = "load_theorem" /\ OneLineSorryTheorem(call.theorem_code)) =>
    /\ Len(Session.editable_clauses) = 1
    /\ Session.editable_clauses[1].clause_type = "sorry"

\* C10 as amended: loading such a theorem yields exactly one clause; it is
\* main_proof_0, of category main_proof, and its content is the placeholder.
C10_OneLineTheoremYieldsMainProof ==
  (call.op = "load_theorem" /\ OneLineSorryTheorem(call.theorem_code)) =>
    /\ Len(Session.editable_clauses) = 1
    /\ Session.editable_clauses[1].clause_id = "main_proof_0"
    /\ Session.editable_clauses[1].clause_type = "main_proof"
    /\ Session.editable_clauses[1].content = "sorry"

C10_Witness ==
  /\ call.op = "load_theorem"
  /\ OneLineSorryTheorem(call.theorem_code)
  /\ KeyList(Session.editable_clauses) = <<"main_proof_0">>

\* the number of occurrences of p in s, counted as str.count does
RECURSIVE Count(_, _)
Count(s, p) ==
  LET i == Find(s, p)
  IN  IF i = -1 THEN 0 ELSE 1 + Count(SliceFrom(s, i + Len(p)), p)

\* some clause of the map has category ctype
HasCategory(d, ctype) == \E k \in 1..Len(d) : d[k].clause_type = ctype

\* the document's only sorry is the proof placeholder, on the declaration
\* line or on a line of its own, and clause is the clause that owns it
OwnsOnlyPlaceholder(code, clause) ==
  LET lines == SplitLines(code)
      l     == clause.start_pos.line
  IN  /\ Count(code, "sorry") = 1
      /\ l < Len(lines)
      /\ Contains(lines[l + 1], "sorry")
      /\ clause.content = "sorry"
      /\ \/ clause.clause_type = "main_proof"
            /\ StartsWith(Strip(lines[l + 1]), "theorem")
         \/ clause.clause_type = "sorry"
            /\ Strip(lines[l + 1]) = "sorry"

\* C11: when the document's only sorry is the proof placeholder, editing the
\* clause that owns it with a text without sorry leaves a clause map with no
\* clause of category sorry and an empty goal list.
C11_PlaceholderEditClearsSorry ==
  [][\A t \in threads :
       (/\ call = NoCall
        /\ call'.op = "edit_clause"
        /\ call'.thread = t
        /\ call'.clause_id \in Keys(thread_local[t].editable_clauses)
        /\ OwnsOnlyPlaceholder(thread_local[t].current_code,
              Lookup(thread_local[t].editable_clauses, call'.clause_id))
        /\ ~Contains(call'.new_content, "sorry"))
       => /\ ~HasCategory(thread_local'[t].editable_clauses, "sorry")
          /\ thread_local'[t].current_goals = <<>>]_vars

C11_Witness ==
  /\ call.op = "edit_clause"
  /\ Compiled
  /\ result.clause_type = "sorry"
  /\ result.old_content = "sorry"
  /\ result.new_content = "simp"
  /\ call.verifier = "completed"
  /\ Session.current_code = "theorem t : P := by\n  simp"
  /\ KeyList(Session.editable_clauses) = <<"tactic_0">>
  /\ Session.current_goals = <<>>

\* the step is an edit_clause call of thread t that went through
SuccessfulEdit(t) ==
  /\ call = NoCall
  /\ call'.op = "edit_clause"
  /\ call'.thread = t
  /\ "edit_successful" \in DOMAIN result'

\* what a further edit_clause with clause_id returns in the session state
FurtherEdit(state, clause_id) ==
  EditClause(state, clause_id, "simp",
             [kind |-> "completed", response |-> "Success"]).ret

\* C12 as stated: after a successful edit_clause every clause id of the map
\* before the edit is stale; a further edit_clause with it fails with the
\* clause-not-found error.
C12_OldIdsAreStale ==
  [][\A t \in threads :
       SuccessfulEdit(t) =>
         \A old_id \in Keys(thread_local[t].editable_clauses) :
           FurtherEdit(thread_local'[t], old_id) = NotFound(old_id)]_vars

\* C12 as amended: after a successful edit_clause a clause id of the map
\* before the edit fails with the clause-not-found error exactly when the
\* scan of the edited document does not assign it again; an id the scan
\* assigns again is accepted.
C12_OldIdFailsIffNotRescanned ==
  [][\A t \in threads :
       SuccessfulEdit(t) =>
         {old_id \in Keys(thread_local[t].editable_clauses) :
            FurtherEdit(thread_local'[t], old_id) = NotFound(old_id)}
         = Keys(thread_local[t].editable_clauses)
             \ Keys(IdentifyEditableClauses(thread_local'[t].current_code))]_vars

\* an edit has gone through and the id it used is in the new map again
C12_Witness ==
  /\ call.op = "edit_clause"
  /\ Compiled
  /\ call.clause_id = "have_h1"
  /\ call.new_content = "simp"
  /\ "have_h1" \in Keys(Session.editable_clauses)
  /\ Lookup(Session.editable_clauses, "have_h1").content = "simp"
  /\ "edit_successful" \in DOMAIN FurtherEdit(Session, call.clause_id)

\* the thread-local storage as thread t alone sees it
Alone(tl, t) == [u \in ThreadIds |-> IF u = t THEN tl[t] ELSE Unset]

\* the state the call c would leave to thread t had t been the only thread
\* ever to use the agent
OwnCallState(tl, t, c) ==
  LET state == GetAgentState(Alone(tl, t), t)
  IN  IF c.op = "load_theorem"
      THEN LoadTheorem(state, c.theorem_code, GetIdent(t), c.verifier).state
      ELSE IF c.op = "edit_clause"
      THEN EditClause(state, c.clause_id, c.new_content, c.verifier).state
      ELSE IF c.op = "add_proof_structure"
      THEN AddProofStructure(state, c.structure_lines, c.verifier).state
      ELSE state

\* C13: with one agent shared by two threads, a call of one thread leaves
\* the other thread's document, messages, goals, clause map and counter as
\* they were, and gives the caller the state its own calls alone produce.
C13_ThreadsAreIsolated ==
  [][\A t \in threads :
       (call = NoCall /\ call' # NoCall /\ call'.thread = t) =>
         /\ \A u \in threads \ {t} : thread_local'[u] = thread_local[u]
         /\ thread_local'[t] = OwnCallState(thread_local, t, call')]_vars

\* both threads hold a session of their own, with different documents and
\* different counters
C13_Witness ==
  /\ call # NoCall
  /\ call.op = "edit_clause"
  /\ call.thread = 2
  /\ thread_local[1].compilation_id = 1
  /\ thread_local[2].compilation_id = 2
  /\ thread_local[1].current_code # ""
  /\ thread_local[1].current_code # thread_local[2].current_code
  /\ thread_local[1].editable_clauses # thread_local[2].editable_clauses
  /\ thread_local[1].session_id # thread_local[2].session_id

\* the document code with the characters of clause's span replaced by
\* new_content and every other character kept
SpliceSpan(code, clause, new_content) ==
  LET lines == SplitLines(code)
      l     == clause.start_pos.line
      line  == lines[l + 1]
  IN  JoinLines([lines EXCEPT ![l + 1] =
        Slice(line, 0, clause.start_pos.column) \o new_content
          \o SliceFrom(line, clause.end_pos.column)])

\* C14: a successful edit_clause on a clause of category sorry replaces
\* exactly the five characters of the clause's span with the new text; every
\* other character of the owning line, another sorry on it included, stays.
C14_SorryEditReplacesSpanOnly ==
  [][\A t \in threads :
       (/\ SuccessfulEdit(t)
        /\ result'.clause_type = "sorry")
       => thread_local'[t].current_code =
            SpliceSpan(thread_local[t].current_code,
                       Lookup(thread_local[t].editable_clauses, call'.clause_id),
                       call'.new_content)]_vars

\* the column just after the proof introducer of a have line the scan
\* recognises: the end of the by that the pattern of the scan matches
IntroducerEnd(line) ==
  LET stripped == Strip(line)
      a == SkipRun(stripped, 4, Whitespace)
      b == SkipRun(stripped, a, WordChars)
      c == SkipRun(stripped, b, Whitespace)
      j == MinOf({i \in (c + 1)..(Len(stripped) - 2) :
                    /\ Slice(stripped, i, i + 2) = ":="
                    /\ LET k == SkipRun(stripped, i + 2, Whitespace)
                       IN  Slice(stripped, k, k + 2) = "by"})
  IN  LeadingSpace(line) + SkipRun(stripped, j + 2, Whitespace) + 2

\* the document code with everything after the introducer of clause's have
\* line replaced by sep and new_content
AfterIntroducer(code, clause, sep, new_content) ==
  LET lines == SplitLines(code)
      l     == clause.start_pos.line
      line  == lines[l + 1]
  IN  JoinLines([lines EXCEPT ![l + 1] =
        Slice(line, 0, IntroducerEnd(line)) \o sep \o new_content])

\* C15: a successful edit_clause on a clause of category have keeps the line
\* up to and including `have <name> : <type> := by` and replaces everything
\* after it with the new text, also when the name or the type contains the
\* letters by.
C15_HaveEditKeepsIntroducer ==
  [][\A t \in threads :
       (/\ SuccessfulEdit(t)
        /\ result'.clause_type = "have")
       => \E sep \in {"", " "} :
            thread_local'[t].current_code =
              AfterIntroducer(thread_local[t].current_code,
                Lookup(thread_local[t].editable_clauses, call'.clause_id),
                sep, call'.new_content)]_vars

\* the clauses add_proof_structure may edit: id starts with main_proof_ or
\* with sorry_
Targets(d) ==
  {k \in 1..Len(d) : \/ StartsWith(d[k].clause_id, "main_proof_")
                     \/ StartsWith(d[k].clause_id, "sorry_")}

\* the id of the first of them in document order
FirstTarget(d) ==
  d[CHOOSE k \in Targets(d) :
      \A m \in Targets(d) :
        \/ d[k].start_pos.line < d[m].start_pos.line
        \/ /\ d[k].start_pos.line = d[m].start_pos.line
           /\ d[k].start_pos.column <= d[m].start_pos.column].clause_id

\* C16: when the clause map has an id starting with main_proof_ or sorry_,
\* add_proof_structure(lines) changes the session and returns exactly as
\* edit_clause does for the first such id in document order and the
\* newline-join of the indented non-blank lines.
C16_AddStructureIsEditOfFirstTarget ==
  [][\A t \in threads :
       (/\ call = NoCall
        /\ call'.op = "add_proof_structure"
        /\ call'.thread = t
        /\ Targets(thread_local[t].editable_clauses) # {})
       => \E output \in VerifierOutputs :
            /\ output.kind = call'.verifier
            /\ LET edit == EditClause(GetAgentState(thread_local, t),
                              FirstTarget(thread_local[t].editable_clauses),
                              JoinLines(IndentLines(call'.structure_lines)),
                              output)
               IN  /\ thread_local'[t] = edit.state
                   /\ result' = edit.ret]_vars

\* add_proof_structure has acted on a map with two candidate clauses and
\* three supplied lines, one of them blank
C16_Witness ==
  /\ call.op = "add_proof_structure"
  /\ Compiled
  /\ Len(call.structure_lines) = 3
  /\ result.clause_id = "main_proof_0"
  /\ result.new_content = "  have h2 : P := by sorry\n    exact h2"
  /\ "sorry_2" \in Keys(Session.editable_clauses)

\* C17: when no clause id starts with main_proof_ or sorry_,
\* add_proof_structure returns the no-main-proof error and leaves document,
\* clause map, messages, goals and counter as they were, without a verifier
\* call.
C17_NoTargetLeavesSession ==
  [][\A t \in threads :
       (/\ call = NoCall
        /\ call'.op = "add_proof_structure"
        /\ call'.thread = t
        /\ Targets(thread_local[t].editable_clauses) = {})
       => /\ result' = NoMainProof
          /\ SessionView(thread_local'[t]) = SessionView(thread_local[t])]_vars

C17_Witness ==
  /\ call.op = "add_proof_structure"
  /\ result = NoMainProof
  /\ Len(Session.editable_clauses) >= 2
  /\ Session.compilation_id > 0
  /\ VerifierCalls(Session) = Session.compilation_id

\* C18: get_interactive_panel leaves document, messages, goals, clause map
\* and counter as they were, and the current_code, clause ids and
\* compilation_id it returns are the session's values at the call.
C18_PanelHasNoSideEffects ==
  [][\A t \in threads :
       (/\ call = NoCall
        /\ call'.op = "get_interactive_panel"
        /\ call'.thread = t)
       => /\ SessionView(thread_local'[t]) = SessionView(thread_local[t])
          /\ result'.current_code = thread_local[t].current_code
          /\ [k \in 1..Len(result'.editable_clauses) |->
                result'.editable_clauses[k][1]]
               = KeyList(thread_local[t].editable_clauses)
          /\ result'.compilation_id = thread_local[t].compilation_id]_vars

C18_Witness ==
  /\ call.op = "get_interactive_panel"
  /\ result.compilation_id = MaxCompilations
  /\ Len(result.editable_clauses) >= 2
  /\ Len(result.goals) >= 1
  /\ result.current_code = Session.current_code
  /\ Session.current_code \notin Documents

\* the positions of the list at which an advice of the given kind stands
AdviceAt(list, kind) ==
  {k \in 1..Len(list) :
     \/ kind = "errors"   /\ list[k] = "Fix compilation errors first"
     \/ kind = "sorry"    /\ StartsWith(list[k], "Work on sorry clauses: ")
     \/ kind = "warnings" /\ list[k] = "Address compiler warnings"
     \/ kind = "complete" /\ list[k] = "Proof looks complete!"}

\* C19: suggest_next_actions changes no state; its list holds the fix-errors
\* advice iff there is an error message, the sorry advice iff there is a
\* clause of category sorry, the warnings advice iff there is a warning
\* message, in this order and each at most once; Proof looks complete! is
\* returned iff none of the three applies, and then alone.
C19_SuggestionsFollowMessagesAndClauses ==
  [][\A t \in threads :
       (/\ call = NoCall
        /\ call'.op = "suggest_next_actions"
        /\ call'.thread = t)
       => LET state    == thread_local[t]
              errors   == HasSeverity(state.current_messages, "error")
              sorries  == HasCategory(state.editable_clauses, "sorry")
              warnings == HasSeverity(state.current_messages, "warning")
              at(kind) == AdviceAt(result', kind)
              n(b)     == IF b THEN 1 ELSE 0
          IN  /\ SessionView(thread_local'[t]) = SessionView(state)
              /\ Cardinality(at("errors")) = n(errors)
              /\ Cardinality(at("sorry")) = n(sorries)
              /\ Cardinality(at("warnings")) = n(warnings)
              /\ Cardinality(at("complete"))
                   = n(~errors /\ ~sorries /\ ~warnings)
              /\ Len(result') = Cardinality(at("errors") \cup at("sorry")
                                   \cup at("warnings") \cup at("complete"))
              /\ \A i \in at("errors"), j \in at("sorry") \cup at("warnings") :
                   i < j
              /\ \A i \in at("sorry"), j \in at("warnings") : i < j]_vars

\* all three advices apply
C19_Witness ==
  /\ call.op = "suggest_next_actions"
  /\ Len(result) = 3
  /\ HasSeverity(Session.current_messages, "error")
  /\ HasSeverity(Session.current_messages, "warning")
  /\ HasCategory(Session.editable_clauses, "sorry")

\* the call that has just returned is the test case c
IsTestCase(c) ==
  /\ call.op = "_add_std_metrics"
  /\ call.max_k = c.max_k
  /\ call.scores_list = c.scores_list

Abs(x) == IF x < 0 THEN -x ELSE x

\* the assertions of test_add_std_metrics for the test case c
TestPasses(c) ==
  \A k \in 2..c.max_k :
    \A name \in DOMAIN c.expected_result[k - 1] :
      /\ EvalMode(k) \in DOMAIN result
      /\ name \in DOMAIN result[EvalMode(k)]
      /\ Abs(result[EvalMode(k)][name] - c.expected_result[k - 1][name])
           <= Tolerance

\* the first k runs have equal mean score
EqualRunMeans(scores_list, k) ==
  \A i, j \in 1..k :
    RunTotals(scores_list, k)[i] = RunTotals(scores_list, k)[j]

\* C20: for every k in 2..max_k, _add_std_metrics writes the three entries
\* under pass@1[avg-of-k]: the sample standard deviation over the first k
\* runs of the runs' mean scores, the mean over the problems of the sample
\* standard deviation of the problem's first k scores, and the former
\* divided by sqrt(k).  These values are the ones the test expects in each
\* of its cases; the deviation across runs is 0 when the first k runs have
\* equal mean score; nothing is written when max_k is 1.
C20_StdMetricsAsTested ==
  call.op = "_add_std_metrics" =>
    /\ \A c \in TestCases : IsTestCase(c) => TestPasses(c)
    /\ DOMAIN result = {EvalMode(k) : k \in 2..call.max_k}
    /\ \A k \in 2..call.max_k :
         /\ DOMAIN result[EvalMode(k)]
              = {"correct_std_dev_across_runs", "correct_avg_sample_std_dev",
                 "correct_std_err_across_runs"}
         /\ EqualRunMeans(call.scores_list, k)
              => result[EvalMode(k)].correct_std_dev_across_runs = 0
    /\ call.max_k = 1 => result = <<>>

\* the test case with five runs: the deviation across the first two runs is
\* 0, across all five it is not
C20_Witness ==
  /\ call.op = "_add_std_metrics"
  /\ call.max_k = 5
  /\ \E c \in TestCases : IsTestCase(c) /\ TestPasses(c)
  /\ result[EvalMode(2)].correct_std_dev_across_runs = 0
  /\ result[EvalMode(5)].correct_std_dev_across_runs = 136
  /\ result[EvalMode(5)].correct_std_err_across_runs = 61

\* the step is a call of thread t
CallBy(t) == call = NoCall /\ call' # NoCall /\ call'.thread = t

\* C21: the compilation counter counts the verifier invocations.  It starts
\* at 0, grows by exactly 1 on each load_theorem and each edit_clause that
\* goes through, stays as it is on a failed edit_clause, a failed
\* add_proof_structure, get_interactive_panel and suggest_next_actions, and
\* the compilation_id of a compile result is the counter after the call.
C21_CounterCountsCompilations ==
  /\ \A t \in ThreadIds : thread_local[t].compilation_id = 0
  /\ [](\A t \in threads :
          thread_local[t].compilation_id = VerifierCalls(thread_local[t]))
  /\ [][\A t \in threads :
          CallBy(t) =>
            LET before == thread_local[t].compilation_id
                after  == thread_local'[t].compilation_id
            IN  /\ call'.op = "load_theorem" =>
                     after = before + 1 /\ result'.compilation_id = after
                /\ (call'.op = "edit_clause"
                      /\ "edit_successful" \in DOMAIN result')
                     => /\ after = before + 1
                        /\ result'.compilation_result.compilation_id = after
                /\ (call'.op \in {"edit_clause", "add_proof_structure"}
                      /\ "error" \in DOMAIN result') => after = before
                /\ call'.op \in {"get_interactive_panel",
                                  "suggest_next_actions"} => after = before
                /\ after >= before]_vars

\* the second compilation of a session, made by an edit whose verifier call
\* returned nothing
C21_Witness ==
  /\ call.op = "edit_clause"
  /\ Compiled
  /\ call.verifier = "empty"
  /\ Session.compilation_id = 2
  /\ Compilation.compilation_id = 2
  /\ VerifierCalls(Session) = 2

\* the step is a call of thread t in which edit_clause went through, called
\* directly or by add_proof_structure
EditWentThrough(t) ==
  /\ CallBy(t)
  /\ call'.op \in {"edit_clause", "add_proof_structure"}
  /\ "edit_successful" \in DOMAIN result'

\* C22: an edit_clause that goes through changes only the clause's owning
\* line: with n newlines in the new text the document grows by exactly n
\* lines (by none for a single-line text), and the lines before and after
\* the owning line are kept, in order.
C22_EditChangesOwningLineOnly ==
  [][\A t \in threads :
       EditWentThrough(t) =>
         LET before == SplitLines(thread_local[t].current_code)
             after  == SplitLines(thread_local'[t].current_code)
             owning == Lookup(thread_local[t].editable_clauses,
                              result'.clause_id).start_pos.line + 1
             n      == Count(result'.new_content, "\n")
         IN  /\ Len(after) = Len(before) + n
             /\ \A i \in 1..Len(before) :
                  /\ i < owning => after[i] = before[i]
                  /\ i > owning => after[i + n] = before[i]]_vars

\* the number of spans the scan of code recognises: the running number of
\* the scan after the last line
Recognised(code) ==
  ScanFrom([clauses |-> <<>>, clause_id |-> 0, main_proof_started |-> FALSE],
           SplitLines(code), 0).clause_id

\* C23: the scan gives the spans it recognises pairwise distinct ids, so the
\* clause map has one entry per recognised span and none is dropped or
\* overwritten, also when two have lines introduce the same name.
C23_OneEntryPerRecognisedSpan ==
  \A t \in threads :
    Len(thread_local[t].editable_clauses)
      = Recognised(thread_local[t].current_code)

\* some clause of the map d owns the line with number l (0-based)
Owned(d, l) == \E k \in 1..Len(d) : d[k].start_pos.line = l

\* C24: after an operation has returned, every goal of the goal list lies
\* on a line owned by some clause of the clause map.
C24_GoalsLieOnClauseLines ==
  \A t \in threads :
    \A g \in 1..Len(thread_local[t].current_goals) :
      Owned(thread_local[t].editable_clauses,
            thread_local[t].current_goals[g].position.line)

\* C25: whenever suggest_next_actions returns Proof looks complete!, the
\* goal list is empty and no line of the document contains sorry.
C25_CompleteMeansNoSorry ==
  (call.op = "suggest_next_actions" /\ result = <<"Proof looks complete!">>)
    => /\ Session.current_goals = <<>>
       /\ ~Contains(Session.current_code, "sorry")

\* the text is a single line that is not empty
SingleLine(text) == text # "" /\ ~Contains(text, "\n")

\* the clause c is a clause of the map d with the same id, line and category
SameClauseIn(d, c) ==
  \E k \in 1..Len(d) :
    /\ d[k].clause_id = c.clause_id
    /\ d[k].start_pos.line = c.start_pos.line
    /\ d[k].clause_type = c.clause_type

\* C26: a successful edit_clause with a non-empty single-line text leaves
\* the id, the owning line and the category of every other clause of the map
\* as they were, so ids obtained before the edit keep naming their lines.
C26_EditKeepsOtherClauses ==
  [][\A t \in threads :
       (SuccessfulEdit(t) /\ SingleLine(call'.new_content)) =>
         \A k \in 1..Len(thread_local[t].editable_clauses) :
           LET c == thread_local[t].editable_clauses[k]
           IN  c.clause_id # call'.clause_id =>
                 SameClauseIn(thread_local'[t].editable_clauses, c)]_vars

\* the number of messages of the list with the severity sev
WithSeverity(messages, sev) ==
  Cardinality({k \in 1..Len(messages) : messages[k].severity = sev})

\* C27: once a session has compiled (after every load_theorem and every
\* successful edit_clause) its message list is not empty and holds at most
\* one message of each of the severities error, warning and info, hence at
\* most three messages, however many blocks the verifier output has.
C27_AtMostOneMessagePerSeverity ==
  \A t \in threads :
    thread_local[t].compilation_id > 0 =>
      LET messages == thread_local[t].current_messages
      IN  /\ messages # <<>>
          /\ \A k \in 1..Len(messages) :
                messages[k].severity \in {"error", "warning", "info"}
          /\ \A sev \in {"error", "warning", "info"} :
                WithSeverity(messages, sev) <= 1
          /\ Len(messages) <= 3

\* an edit_clause has compiled against an output with one error block and
\* two warning blocks: the list holds the error and the first warning only
C27_Witness ==
  /\ call.op = "edit_clause"
  /\ Compiled
  /\ Len(Session.current_messages) = 2
  /\ Session.current_messages[1].severity = "error"
  /\ Session.current_messages[2].severity = "warning"
  /\ Session.current_messages[2].message = "unused h"

\* the supplied lines that are not blank, in order
NonBlank(structure_lines) ==
  SelectSeq(structure_lines, LAMBDA line : Strip(line) # "")

\* C28: after a successful add_proof_structure the non-blank supplied lines
\* are consecutive lines of the document from the target clause's line on,
\* each on a line of its own, and all of them carry the same leading
\* indentation, for a main_proof target as for a sorry target.
C28_StructureLinesAreSeparateAndAligned ==
  [][\A t \in threads :
       (/\ CallBy(t)
        /\ call'.op = "add_proof_structure"
        /\ "edit_successful" \in DOMAIN result')
       => LET supplied == NonBlank(call'.structure_lines)
              after    == SplitLines(thread_local'[t].current_code)
              owning   == Lookup(thread_local[t].editable_clauses,
                                 result'.clause_id).start_pos.line + 1
          IN  /\ Len(after) >= owning + Len(supplied) - 1
              /\ \A j \in 1..Len(supplied) :
                    /\ Strip(after[owning + j - 1]) = Strip(supplied[j])
                    /\ LeadingSpace(after[owning + j - 1])
                         = LeadingSpace(after[owning])]_vars

(***************************************************************************)
(* The prover's turn loop, ProverTask._signle_data_point_generate          *)
(* (src/nemo_skills/inference/prover.py).  While the coroutine runs, call  *)
(* holds its locals; it is suspended at its two awaits, pc = "generate"    *)
(* for the model's completion and pc = "execute" for the sandbox.  The     *)
(* counters generations, llm_calls and executions record the requests it   *)
(* has made.                                                               *)
(***************************************************************************)
\* the largest refinement_max_turns a run is followed for
MaxTurns == 3

\* cfg.inference.tokens_to_generate
InferenceTokensToGenerate == 2

\* cfg.max_tokens: below the prompt, exactly the prompt, room for one turn,
\* room for every turn
MaxTokensPool == {1, 2, 5, 40}

reasoning_effort_list == <<"low", "medium", "high">>

\* cfg.inference.extra_body["reasoning_effort"]
ReasoningEffort == "medium"

\* the configurations of the runs.  delete_wrong_turns requires remove_cot
\* (the assertion of __init__); adaptive reasoning is followed for the plain
\* prompt handling with room for every turn.
ProverConfigs ==
  {cfg \in [refinement : BOOLEAN, refinement_max_turns : 1..MaxTurns,
            remove_cot : BOOLEAN, delete_wrong_turns : BOOLEAN,
            adaptive_reasoning : BOOLEAN, max_tokens : MaxTokensPool] :
     /\ cfg.delete_wrong_turns => cfg.remove_cot
     /\ cfg.adaptive_reasoning => (~cfg.remove_cot /\ cfg.max_tokens = 40)}

\* a turn of the conversation, with the number of tokens the chat template
\* makes of it
Turn(role, content, tokens) ==
  [role |-> role, content |-> content, tokens |-> tokens]

\* self.prompt.fill({"problem": formal_statement.strip()})
FilledPrompt == <<Turn("user", "problem", 2)>>

\* len(self.llm.tokenizer.apply_chat_template(prompt_turn_list, tokenize=True,
\* add_generation_prompt=True))
RECURSIVE NumTokens(_)
NumTokens(prompt_turn_list) ==
  IF prompt_turn_list = <<>> THEN 0
  ELSE Head(prompt_turn_list).tokens + NumTokens(Tail(prompt_turn_list))

\* the code fence of the generations, three backquotes in the source; a
\* string of this notation cannot hold a backquote
Fence == "'''"

\* what the model can answer to a request for at most tokens_to_generate
\* tokens: nothing, text without a code block, a proof of another statement,
\* a proof of the statement
Generations(tokens_to_generate) ==
  {[generation |-> "", tokens |-> 0]}
    \cup (IF tokens_to_generate > 0
          THEN {[generation |-> text, tokens |-> tokens_to_generate] :
                  text \in {"no code", Fence \o "lean4\nother\n" \o Fence,
                            Fence \o "lean4\nproof\n" \o Fence}}
          ELSE {})

\* _extract_and_replace_code: extract_code gives "None" when the generation
\* holds no code block, replace_statement_in_proof gives an **Error** text
\* when the code does not prove the statement
ExtractAndReplaceCode(generation) ==
  IF ~Contains(generation, Fence \o "lean4\n")
  THEN [code |-> "None", full_code |-> "None"]
  ELSE LET code == Slice(generation, Len(Fence \o "lean4\n"),
                         Find(generation, "\n" \o Fence))
       IN  [code |-> code,
            full_code |-> IF code = "proof" THEN "theorem problem := by proof\n"
                          ELSE "**Error**: statement not found"]

\* what self.llm.sandbox.execute_lean4_code returns: a dict, or a string
\* when the execution timed out
ExecutionResults ==
  {[type |-> "dict", process_status |-> "completed", stdout |-> "", stderr |-> ""],
   [type |-> "dict", process_status |-> "completed",
    stdout |-> "warning: declaration uses 'sorry'", stderr |-> ""],
   [type |-> "dict", process_status |-> "completed",
    stdout |-> "error: linarith failed", stderr |-> ""],
   [type |-> "dict", process_status |-> "timeout",
    stdout |-> "error: unknown identifier", stderr |-> ""],
   [type |-> "str", process_status |-> "", stdout |-> "Timed out", stderr |-> ""]}

\* the dict an execution result is stored as
ExecutionDict(process_status, stdout) ==
  [process_status |-> process_status, stderr |-> "", stdout |-> stdout]

\* str.lower() for the letters of the outputs
Lower(s) ==
  LET upper == "ABCDEFGHIJKLMNOPQRSTUVWXYZ"
      lower == "abcdefghijklmnopqrstuvwxyz"
      low(c) == IF Contains(upper, c)
                THEN CharAt(lower, Find(upper, c)) ELSE c
      RECURSIVE from(_)
      from(i) == IF i >= Len(s) THEN "" ELSE low(CharAt(s, i)) \o from(i + 1)
  IN  from(0)

\* re.search(r"\bsorry\b", s) is not None
HasWordSorry(s) ==
  \E p \in 0..Len(s) :
    /\ Slice(s, p, p + 5) = "sorry"
    /\ (p = 0 \/ CharAt(s, p - 1) \notin WordChars)
    /\ (p + 5 >= Len(s) \/ CharAt(s, p + 5) \notin WordChars)

\* the stdout of a turn whose generation holds no code
ParsingError ==
  "Parsing error. Cannot parse the code from output. Please try again and write the code in the format of "
    \o Fence \o "lean4\n<code>\n" \o Fence

\* self.refine_prompt.fill({"error_message": error_message})
RefinePromptFill(error_message) == <<Turn("user", error_message, 1)>>

\* the frame of a call with configuration cfg before the loop
NewFrame(cfg) ==
  [op |-> "_signle_data_point_generate", cfg |-> cfg, pc |-> "start",
   turn_idx |-> 0, tokens_to_generate |-> 0, code |-> "", full_code |-> "",
   prompt_turn_list |-> FilledPrompt,
   full_prompt_turn_list |-> FilledPrompt,
   base_prompt_turn_list |-> FilledPrompt,
   promt_turn_list_list |-> <<>>, code_list |-> <<>>,
   results_dict_list |-> <<>>,
   generations |-> 0, llm_calls |-> 0, executions |-> 0]

\* the statements after the loop: the success flag and the returned dict
Returned(f) ==
  LET success == /\ Len(f.results_dict_list) > 0
                 /\ f.results_dict_list[Len(f.results_dict_list)].success
  IN  [call   |-> [f EXCEPT !.pc = "returned"],
       result |-> [code_list |-> f.code_list,
                   results_dict_list |-> f.results_dict_list,
                   prompt_turn_list |-> f.prompt_turn_list,
                   turn_idx |-> f.turn_idx,
                   success |-> success,
                   full_prompt_turn_list |-> f.full_prompt_turn_list,
                   promt_turn_list_list |-> f.promt_turn_list_list]]

\* an exception leaves the coroutine
Raised(f, exception) ==
  [call |-> [f EXCEPT !.pc = "raised"], result |-> [exception |-> exception]]

\* the head of an iteration: the prompt is measured and, unless it is too
\* long, a completion is requested
LoopTop(f) ==
  LET num_tokens_prefix == NumTokens(f.prompt_turn_list)
      room == f.cfg.max_tokens - num_tokens_prefix
  IN  IF num_tokens_prefix > f.cfg.max_tokens
      THEN Returned(f)
      ELSE [call |-> [f EXCEPT
                        !.pc = "generate",
                        !.tokens_to_generate =
                           IF room < InferenceTokensToGenerate
                           THEN room ELSE InferenceTokensToGenerate,
                        !.generations = @ + 1],
            result |-> NoResult]

\* Variant of the end of an iteration that goes on to the next turn after a
\* successful verification as after a failed one; used only to show that
\* the properties below depend on the break.
EndOfTurnKeepsGoing(f, results_dict, feedback) ==
  LET g == [f EXCEPT !.results_dict_list = Append(@, results_dict)]
  IN  IF f.cfg.refinement /\ f.turn_idx < f.cfg.refinement_max_turns - 1
      THEN LoopTop([g EXCEPT !.prompt_turn_list = @ \o feedback,
                             !.full_prompt_turn_list = @ \o feedback,
                             !.turn_idx = @ + 1])
      ELSE Returned(g)

\* the end of an iteration: the turn's dict is stored; the loop is left
\* after a success, and after a failure when no further turn is allowed
EndOfTurn(f, results_dict, feedback) ==
  LET g == [f EXCEPT !.results_dict_list = Append(@, results_dict)]
  IN  IF results_dict.success
      THEN Returned(g)
      ELSE IF f.cfg.refinement /\ f.turn_idx < f.cfg.refinement_max_turns - 1
      THEN LoopTop([g EXCEPT !.prompt_turn_list = @ \o feedback,
                             !.full_prompt_turn_list = @ \o feedback,
                             !.turn_idx = @ + 1])
      ELSE Returned(g)

\* a failed turn: the feedback is made with self.refine_prompt, which
\* __init__ sets only when cfg.refinement holds
FailedTurn(f, code, execution_result, error_message) ==
  IF ~f.cfg.refinement
  THEN Raised(f, "AttributeError")
  ELSE LET feedback == RefinePromptFill(error_message)
       IN  EndOfTurn(f, [code |-> code,
                         execution_result |-> execution_result,
                         success |-> FALSE,
                         feedback |-> feedback[1].content],
                     feedback)

\* Variant that appends the cleaned turn to the prompt also under
\* delete_wrong_turns; used only to show that the properties below depend
\* on the return to the base prompt.
AfterGenerationKeepsTurns(f, generation) ==
  LET answer    == Turn("assistant", generation.generation, generation.tokens)
      extracted == ExtractAndReplaceCode(generation.generation)
      code      == extracted.code
      full_code == extracted.full_code
      unparsed  == code = "None" \/ Contains(full_code, "**Error**")
      cleaned   == Turn("assistant",
                        Fence \o "lean4\n" \o Strip(full_code) \o "\n" \o Fence,
                        1)
      g == [f EXCEPT
              !.promt_turn_list_list =
                 Append(@, Append(f.prompt_turn_list, answer)),
              !.code_list = Append(@, full_code),
              !.code = code,
              !.full_code = full_code,
              !.prompt_turn_list =
                 IF f.cfg.remove_cot /\ ~unparsed
                 THEN Append(@, cleaned)
                 ELSE Append(@, answer),
              !.full_prompt_turn_list = Append(@, answer)]
  IN  IF code = "None"
      THEN FailedTurn(g, code,
             ExecutionDict("failed", ParsingError), ParsingError)
      ELSE IF Contains(full_code, "**Error**")
      THEN FailedTurn(g, code, ExecutionDict("failed", full_code), full_code)
      ELSE [call |-> [g EXCEPT !.pc = "execute", !.executions = @ + 1],
            result |-> NoResult]

\* the iteration from the completion to the request to the sandbox
AfterGeneration(f, generation) ==
  LET answer    == Turn("assistant", generation.generation, generation.tokens)
      extracted == ExtractAndReplaceCode(generation.generation)
      code      == extracted.code
      full_code == extracted.full_code
      unparsed  == code = "None" \/ Contains(full_code, "**Error**")
      cleaned   == Turn("assistant",
                        Fence \o "lean4\n" \o Strip(full_code) \o "\n" \o Fence,
                        1)
      g == [f EXCEPT
              !.promt_turn_list_list =
                 Append(@, Append(f.prompt_turn_list, answer)),
              !.code_list = Append(@, full_code),
              !.code = code,
              !.full_code = full_code,
              !.prompt_turn_list =
                 IF f.cfg.remove_cot /\ ~unparsed
                 THEN IF f.cfg.delete_wrong_turns
                      THEN Append(f.base_prompt_turn_list, cleaned)
                      ELSE Append(@, cleaned)
                 ELSE Append(@, answer),
              !.full_prompt_turn_list = Append(@, answer)]
  IN  IF code = "None"
      THEN FailedTurn(g, code,
             ExecutionDict("failed", ParsingError), ParsingError)
      ELSE IF Contains(full_code, "**Error**")
      THEN FailedTurn(g, code, ExecutionDict("failed", full_code), full_code)
      ELSE [call |-> [g EXCEPT !.pc = "execute", !.executions = @ + 1],
            result |-> NoResult]

\* the iteration from the sandbox's answer on
AfterExecution(f, execution_result) ==
  IF execution_result.type = "dict"
  THEN LET dict == [process_status |-> execution_result.process_status,
                    stderr |-> execution_result.stderr,
                    stdout |-> execution_result.stdout]
       IN  IF /\ dict.process_status = "completed"
              /\ ~Contains(dict.stdout, "sorry")
              /\ ~Contains(dict.stdout, "failed")
           THEN EndOfTurn(f, [code |-> f.code, execution_result |-> dict,
                              success |-> TRUE], <<>>)
           ELSE LET combined == Lower(dict.stdout) \o "\n" \o Lower(dict.stderr)
                    error_message ==
                      dict.stdout \o
                        (IF dict.process_status = "completed"
                            /\ HasWordSorry(combined)
                         THEN "\nThe code contains 'sorry', which means the proof is incomplete."
                         ELSE "")
                IN  FailedTurn(f, f.code, dict,
                      "We use <error></error> to signal the position of the error. \n"
                        \o error_message)
  ELSE FailedTurn(f, f.code, ExecutionDict("failed", execution_result.stdout),
         "The compilation timed out. There might be a heavy computation in the code or an endless loop.")

\* how many completions _generate_single_completion asks the model for
\* before it returns one: with adaptive reasoning an empty completion is
\* asked for again with the next lower reasoning effort
EffortIndex ==
  CHOOSE i \in 0..2 : reasoning_effort_list[i + 1] = ReasoningEffort

Retries(cfg) == IF cfg.adaptive_reasoning THEN 0..EffortIndex ELSE {0}

InitProver ==
  /\ threads = {}
  /\ thread_local = [t \in ThreadIds |-> Unset]
  /\ call = NoCall
  /\ result = NoResult

Resume(outcome) ==
  /\ call' = outcome.call
  /\ result' = outcome.result
  /\ UNCHANGED <<threads, thread_local>>

\* _signle_data_point_generate is called and runs to its first await
DoSingleDataPointGenerate ==
  \E cfg \in ProverConfigs :
    /\ call = NoCall
    /\ Resume(LoopTop(NewFrame(cfg)))

\* the model's completion arrives, after retries empty completions
GenerationArrives ==
  /\ call.op = "_signle_data_point_generate"
  /\ call.pc = "generate"
  /\ \E retries \in Retries(call.cfg),
        generation \in Generations(call.tokens_to_generate) :
       /\ retries < EffortIndex /\ call.cfg.adaptive_reasoning
            => generation.generation # ""
       /\ Resume(AfterGeneration(
                   [call EXCEPT !.llm_calls = @ + retries + 1], generation))

\* the sandbox's answer arrives
ExecutionArrives ==
  /\ call.op = "_signle_data_point_generate"
  /\ call.pc = "execute"
  /\ \E execution_result \in ExecutionResults :
       Resume(AfterExecution(call, execution_result))

\* the caller takes what the coroutine returned or raised
TakeGeneration ==
  /\ call.op = "_signle_data_point_generate"
  /\ call.pc \in {"returned", "raised"}
  /\ call' = NoCall
  /\ result' = NoResult
  /\ UNCHANGED <<threads, thread_local>>

NextProver ==
  \/ DoSingleDataPointGenerate
  \/ GenerationArrives
  \/ ExecutionArrives
  \/ TakeGeneration

SpecProver == InitProver /\ [][NextProver]_vars

(***************************************************************************)
(* Properties of the turn loop.                                            *)
(***************************************************************************)
\* a call of _signle_data_point_generate is under way or has just ended
InLoop == call.op = "_signle_data_point_generate"

\* C29: for refinement_max_turns >= 1 the turn loop asks for at most
\* refinement_max_turns generations and at most that many executions and
\* then returns, never raises; in the returned result code_list,
\* results_dict_list and promt_turn_list_list have the same length, the
\* number of generations made.
C29_TurnLoopIsBoundedAndReturns ==
  InLoop =>
    /\ call.generations <= call.cfg.refinement_max_turns
    /\ call.executions <= call.cfg.refinement_max_turns
    /\ call.pc # "raised"
    /\ call.pc = "returned" =>
         /\ Len(result.code_list) = call.generations
         /\ Len(result.results_dict_list) = call.generations
         /\ Len(result.promt_turn_list_list) = call.generations

\* no entry of the list but possibly the last one is successful
OnlyLastCanSucceed(results_dict_list) ==
  \A k \in 1..Len(results_dict_list) - 1 : ~results_dict_list[k].success

\* C30: the turn loop stops at the first successful verification: only
\* the last entry of results_dict_list can be successful, the returned
\* success flag holds exactly when the list is not empty and its last
\* entry is successful, and while a generation or an execution is awaited
\* no entry is successful.
C30_LoopStopsAtFirstSuccess ==
  InLoop =>
    /\ OnlyLastCanSucceed(call.results_dict_list)
    /\ call.pc \in {"generate", "execute"} =>
         \A k \in 1..Len(call.results_dict_list) :
           ~call.results_dict_list[k].success
    /\ call.pc = "returned" =>
         /\ result.results_dict_list = call.results_dict_list
         /\ result.success <=>
              /\ result.results_dict_list # <<>>
              /\ result.results_dict_list[Len(result.results_dict_list)].success

\* a run that was allowed three turns has returned after its second turn,
\* the first one failed and the second one successful
C30_Witness ==
  /\ InLoop
  /\ call.pc = "returned"
  /\ call.cfg.refinement_max_turns = 3
  /\ call.generations = 2
  /\ Len(result.results_dict_list) = 2
  /\ ~result.results_dict_list[1].success
  /\ result.results_dict_list[2].success
  /\ result.success
  /\ result.turn_idx = 1

\* the call has ended after a turn that failed: the code could not be
\* parsed, the verifier rejected it or the verification timed out
AttemptFailed ==
  \/ call.pc = "raised"
  \/ /\ call.pc = "returned"
     /\ call.results_dict_list # <<>>
     /\ ~call.results_dict_list[Len(call.results_dict_list)].success

\* C31: with refinement disabled a proof attempt that fails ends after
\* exactly one generation and returns a result with success = FALSE; it
\* does not raise.
C31_FailureWithoutRefinementReturns ==
  (InLoop /\ ~call.cfg.refinement /\ AttemptFailed) =>
    /\ call.pc = "returned"
    /\ call.generations = 1
    /\ result.success = FALSE

\* the step has stored the turn's dict with the mark success
Marked(success) ==
  /\ call'.pc # "raised"
  /\ Len(call'.results_dict_list) = Len(call.results_dict_list) + 1
  /\ call'.results_dict_list[Len(call'.results_dict_list)].success = success

\* the sandbox result passes: a dict of a completed process whose stdout
\* holds neither sorry nor failed
Passes(execution_result) ==
  /\ execution_result.type = "dict"
  /\ execution_result.process_status = "completed"
  /\ ~Contains(execution_result.stdout, "sorry")
  /\ ~Contains(execution_result.stdout, "failed")

TimeoutFeedback ==
  "The compilation timed out. There might be a heavy computation in the code or an endless loop."

\* C32: a turn is marked successful exactly when code was extracted from
\* the generation (code is not None and the full code has no **Error**
\* marker) and the sandbox result passes; when the extraction fails the
\* turn is marked failed and the sandbox is not invoked; a sandbox result
\* that is a plain string is marked failed with the timeout feedback.
C32_TurnMarkedByExtractionAndSandbox ==
  [][/\ (InLoop /\ call.pc = "generate" /\ call' # call) =>
          IF call'.code = "None" \/ Contains(call'.full_code, "**Error**")
          THEN /\ Marked(FALSE)
               /\ call'.executions = call.executions
          ELSE /\ call'.pc = "execute"
               /\ call'.executions = call.executions + 1
               /\ call'.results_dict_list = call.results_dict_list
     /\ (InLoop /\ call.pc = "execute" /\ call' # call) =>
          \A execution_result \in ExecutionResults :
            call' = AfterExecution(call, execution_result).call =>
              /\ Marked(Passes(execution_result))
              /\ call'.executions = call.executions
              /\ execution_result.type = "str" =>
                   call'.results_dict_list[Len(call'.results_dict_list)].feedback
                     = TimeoutFeedback]_vars

\* the number of turns of the role user in the list
UserTurns(turn_list) ==
  Cardinality({k \in 1..Len(turn_list) : turn_list[k].role = "user"})

\* feedback is appended only under refinement and while another turn is
\* allowed: the conversation holds one feedback per turn begun after the
\* first, and further turns are begun only under refinement
FeedbackOnlyForNextTurn ==
  InLoop =>
    /\ UserTurns(call.full_prompt_turn_list) = 1 + call.turn_idx
    /\ call.turn_idx <= call.cfg.refinement_max_turns - 1
    /\ call.turn_idx > 0 => call.cfg.refinement

\* a prompt is being sent for a turn after the first, with remove_cot and
\* delete_wrong_turns enabled
LaterPromptSent ==
  /\ InLoop
  /\ call.pc = "generate"
  /\ call.turn_idx >= 1
  /\ call.cfg.remove_cot
  /\ call.cfg.delete_wrong_turns

\* no code could be taken from the latest generation
LatestUnparsed == call.code = "None" \/ Contains(call.full_code, "**Error**")

\* the base prompt followed by the latest attempt as one assistant turn
\* with the cleaned code, and its feedback
LatestAttemptOnly ==
  call.base_prompt_turn_list
    \o <<Turn("assistant",
              Fence \o "lean4\n" \o Strip(call.full_code) \o "\n" \o Fence, 1)>>
    \o RefinePromptFill(
         call.results_dict_list[Len(call.results_dict_list)].feedback)

\* C33 as stated: feedback is appended only under refinement and while
\* another turn is allowed, and with remove_cot and delete_wrong_turns every
\* prompt sent after the first turn is the base prompt followed only by the
\* latest attempt's cleaned code and its feedback.
C33_PromptHoldsLatestAttemptOnly ==
  /\ FeedbackOnlyForNextTurn
  /\ LaterPromptSent => call.prompt_turn_list = LatestAttemptOnly

\* C33, amended: as stated when code could be taken from the latest
\* generation; after a generation without usable code the turn is not
\* deleted: the prompt is the previous prompt followed by the generation
\* as it came and its feedback.
C33_PromptHoldsLatestParsedAttemptOnly ==
  /\ FeedbackOnlyForNextTurn
  /\ LaterPromptSent =>
       IF LatestUnparsed
       THEN call.prompt_turn_list =
              call.promt_turn_list_list[Len(call.promt_turn_list_list)]
                \o RefinePromptFill(
                     call.results_dict_list[Len(call.results_dict_list)].feedback)
       ELSE call.prompt_turn_list = LatestAttemptOnly

\* the third prompt is sent after two rejected proofs: it has three turns
\* while the full conversation has five
C33_Witness ==
  /\ LaterPromptSent
  /\ call.turn_idx = 2
  /\ ~LatestUnparsed
  /\ Len(call.prompt_turn_list) = 3
  /\ Len(call.full_prompt_turn_list) = 5
  /\ call.prompt_turn_list = LatestAttemptOnly

\* C34: a generation is requested only for a prompt of at most max_tokens
\* tokens, and every request has a positive tokens_to_generate with
\* num_tokens_prefix + tokens_to_generate <= max_tokens and
\* tokens_to_generate <= inference.tokens_to_generate.
C34_RequestFitsTokenBudget ==
  (InLoop /\ call.pc = "generate") =>
    LET num_tokens_prefix == NumTokens(call.prompt_turn_list)
    IN  /\ num_tokens_prefix <= call.cfg.max_tokens
        /\ call.tokens_to_generate > 0
        /\ num_tokens_prefix + call.tokens_to_generate <= call.cfg.max_tokens
        /\ call.tokens_to_generate <= InferenceTokensToGenerate

(***************************************************************************)
(* ProverTask.pass_at_N: proof attempts one after another.  While it runs, *)
(* call holds its locals and attempts records how the attempts made so far *)
(* ended.  An attempt is a whole run of _signle_data_point_generate, here  *)
(* run to its end on a script of what the model and the sandbox answer at  *)
(* each turn.                                                              *)
(***************************************************************************)
\* the largest n_pass a run is followed for
MaxPass == 3

\* what the model and the sandbox answer at one turn
TurnInputs ==
  {[generation |-> "no code", execution |-> x] :
     x \in {r \in ExecutionResults : r.type = "str"}}
    \cup {[generation |-> Fence \o "lean4\nproof\n" \o Fence, execution |-> x] :
            x \in {r \in ExecutionResults :
                     r.type = "str" \/ r.process_status = "completed"}}

\* one answer for each turn an attempt can take
Scripts(cfg) == [1..cfg.refinement_max_turns -> TurnInputs]

\* the configurations of the attempts: the plain prompt handling with room
\* for every turn
PassConfigs ==
  {cfg \in ProverConfigs :
     ~cfg.remove_cot /\ ~cfg.adaptive_reasoning /\ cfg.max_tokens = 40}

\* _signle_data_point_generate from the state outcome to its end, with the
\* answers of script from turn k on
RECURSIVE RunAttempt(_, _, _)
RunAttempt(outcome, script, k) ==
  LET f == outcome.call
  IN  IF f.pc = "generate"
      THEN RunAttempt(
             AfterGeneration([f EXCEPT !.llm_calls = @ + 1],
                             [generation |-> script[k].generation,
                              tokens |-> f.tokens_to_generate]),
             script, k)
      ELSE IF f.pc = "execute"
      THEN RunAttempt(AfterExecution(f, script[k].execution), script, k + 1)
      ELSE outcome

\* the frame of pass_at_N before its loop
NewPass(cfg, N) ==
  [op |-> "pass_at_N", cfg |-> cfg, N |-> N, pc |-> "attempt", i |-> 0,
   new_results_dict |-> [success |-> FALSE], attempts |-> <<>>]

\* the statements after the loop
PassReturned(p, results_dict) ==
  [call   |-> [p EXCEPT !.pc = "returned"],
   result |-> [success |-> p.new_results_dict.success,
               results_dict_list |-> results_dict,
               n_pass |-> p.i + 1]]

\* pass_at_N from the end of an attempt on: an exception of the attempt
\* leaves pass_at_N, a success ends the loop, a failure goes on to the next
\* attempt if there is one
AfterAttempt(p, outcome) ==
  IF outcome.call.pc = "raised"
  THEN [call   |-> [p EXCEPT !.pc = "raised",
                             !.attempts = Append(@, "raised")],
        result |-> outcome.result]
  ELSE IF outcome.result.success
  THEN PassReturned([p EXCEPT !.new_results_dict.success = TRUE,
                              !.attempts = Append(@, "success")],
                    outcome.result)
  ELSE IF p.i + 1 < p.N
  THEN [call   |-> [p EXCEPT !.i = @ + 1,
                             !.attempts = Append(@, "failure")],
        result |-> NoResult]
  ELSE PassReturned([p EXCEPT !.attempts = Append(@, "failure")],
                    outcome.result)

\* pass_at_N is called with N = cfg.n_pass and awaits its first attempt
DoPassAtN ==
  \E cfg \in PassConfigs, N \in 1..MaxPass :
    /\ call = NoCall
    /\ Resume([call |-> NewPass(cfg, N), result |-> NoResult])

\* the attempt that is awaited ends
AttemptEnds ==
  /\ call.op = "pass_at_N"
  /\ call.pc = "attempt"
  /\ \E script \in Scripts(call.cfg) :
       Resume(AfterAttempt(call,
                RunAttempt(LoopTop(NewFrame(call.cfg)), script, 1)))

\* the caller takes what pass_at_N returned or raised
TakePass ==
  /\ call.op = "pass_at_N"
  /\ call.pc \in {"returned", "raised"}
  /\ call' = NoCall
  /\ result' = NoResult
  /\ UNCHANGED <<threads, thread_local>>

NextPass ==
  \/ DoPassAtN
  \/ AttemptEnds
  \/ TakePass

SpecPass == InitProver /\ [][NextPass]_vars

\* a call of pass_at_N is under way or has just ended
InPass == call.op = "pass_at_N"

\* C35: pass_at_N with N >= 1 runs attempts one after another, never more
\* than N, and ends only at the first successful attempt or after the N-th
\* one, by returning: n_pass is the number of attempts run, between 1 and
\* N, and success holds exactly when the last attempt run succeeded, which
\* is exactly when some attempt succeeded.
C35_PassAtNStopsAtFirstSuccess ==
  InPass =>
    LET n == Len(call.attempts)
    IN  /\ n <= call.N
        /\ \A k \in 1..n - 1 : call.attempts[k] = "failure"
        /\ call.pc # "raised"
        /\ call.pc = "returned" =>
             /\ result.n_pass = n
             /\ n \in 1..call.N
             /\ call.attempts[n] = "success" \/ n = call.N
             /\ result.success <=> call.attempts[n] = "success"
             /\ result.success <=>
                  \E k \in 1..n : call.attempts[k] = "success"

====
